---------------------------- MODULE Spec2Model ----------------------------
(***************************************************************************)
(* A model of the Si4702/Si4703 FM tuner driver (fm_si470x.c).             *)
(*                                                                         *)
(* The driver's handle (si470x_t) is the record `radio`.  Each public      *)
(* function of the driver is an operator from a machine record (the        *)
(* handle, the chip at the other end of the I2C bus, the clock and the     *)
(* bus transactions of the running call) to the SET of machines the call   *)
(* can end in; the set has one element per answer the chip and the bus     *)
(* can give.  An action of the specification is one complete call of a     *)
(* public function.                                                        *)
(*                                                                         *)
(* Build: asserts are compiled in (no NDEBUG).  A failed assert or a       *)
(* panic() ends the program: ctl leaves "run" and no further call happens. *)
(*                                                                         *)
(* Units: frequencies are integers in kHz (87.5 MHz = 87500), times are    *)
(* microseconds as returned by time_us_64().                               *)
(***************************************************************************)
EXTENDS Integers, Sequences, FiniteSets, TLC

(***************************************************************************)
(* Bounds of the model.                                                    *)
(***************************************************************************)
\* status reads the wait-for-STC-clear loop may take before it must see STC clear
MaxSpin == 2
\* polls a blocking tune or seek may take before one must report done
MaxPolls == 2
\* failed (short) bus transfers in one behaviour
MaxFaults == 1
\* value-changing setter calls in one behaviour
MaxSetterCalls == 1

(***************************************************************************)
(* 16-bit words and the bit operations of C on them.                       *)
(***************************************************************************)
Word == 65536

RECURSIVE BitOrN(_, _, _)
BitOrN(a, b, n) ==
    IF n = 0 THEN 0
    ELSE (IF (a % 2) + (b % 2) > 0 THEN 1 ELSE 0)
         + 2 * BitOrN(a \div 2, b \div 2, n - 1)

\* a | b on uint16_t
Or16(a, b) == BitOrN(a % Word, b % Word, 16)

(***************************************************************************)
(* fm_si470x_regs.h: register indices, bit masks, field masks and shifts.  *)
(***************************************************************************)
DEVICEID == 0
CHIPID == 1
POWERCFG == 2
CHANNEL == 3
SYSCONFIG1 == 4
SYSCONFIG2 == 5
SYSCONFIG3 == 6
TEST1 == 7
TEST2 == 8
BOOTCONFIG == 9
STATUSRSSI == 10
READCHAN == 11
RDSA == 12
RDSB == 13
RDSC == 14
RDSD == 15

\* DEVICEID
MFGID_LSB == 0
MFGID_BITS == 4095
PN_LSB == 12
PN_BITS == 61440
\* CHIPID
FIRMWARE_LSB == 0
FIRMWARE_BITS == 63
DEV_LSB == 6
DEV_BITS == 960
REV_LSB == 10
REV_BITS == 64512
\* POWERCFG
ENABLE_BIT == 1
DISABLE_BIT == 64
SEEK_BIT == 256
SEEKUP_BIT == 512
SKMODE_BIT == 1024
MONO_BIT == 8192
DMUTE_BIT == 16384
DSMUTE_BIT == 32768
\* CHANNEL
TUNE_BIT == 32768
CHAN_LSB == 0
CHAN_BITS == 1023
\* SYSCONFIG1
DE_BIT == 2048
RDS_BIT == 4096
\* SYSCONFIG2
VOLUME_LSB == 0
VOLUME_BITS == 15
SPACE_LSB == 4
SPACE_BITS == 48
BAND_LSB == 6
BAND_BITS == 192
SEEKTH_LSB == 8
SEEKTH_BITS == 65280
\* SYSCONFIG3
SKCNT_LSB == 0
SKCNT_BITS == 15
SKSNR_LSB == 4
SKSNR_BITS == 240
VOLEXT_BIT == 256
SMUTEA_LSB == 12
SMUTEA_BITS == 12288
SMUTER_LSB == 14
SMUTER_BITS == 49152
\* TEST1
XOSCEN_BIT == 32768
\* STATUSRSSI
RSSI_LSB == 0
RSSI_BITS == 255
ST_BIT == 256
SFBL_BIT == 8192
STC_BIT == 16384
RDSR_BIT == 32768
\* READCHAN
READCHAN_LSB == 0
READCHAN_BITS == 1023

\* fm_si470x.c
DEV_SI4702 == 1
DEV_SI4703 == 9
TUNE_POLL_INTERVAL_MS == 20
SEEK_POLL_INTERVAL_MS == 200

\* fm_si470x.h
FM_MAX_VOLUME == 15
FM_BAND_COMMON == 0
FM_BAND_JAPAN_WIDE == 1
FM_BAND_JAPAN == 2
FM_CHANNEL_SPACING_200 == 0
FM_CHANNEL_SPACING_100 == 1
FM_CHANNEL_SPACING_50 == 2
FM_DEEMPHASIS_75 == 0
FM_DEEMPHASIS_50 == 1
FM_SEEK_SENSITIVITY_STRONG_ONLY == 0
FM_SEEK_SENSITIVITY_RECOMMENDED == 1
FM_SEEK_SENSITIVITY_MORE == 2
FM_SEEK_SENSITIVITY_MOST == 3
FM_SEEK_DOWN == 0
FM_SEEK_UP == 1

fm_config_usa ==
    [band |-> FM_BAND_COMMON, channel_spacing |-> FM_CHANNEL_SPACING_200,
     deemphasis |-> FM_DEEMPHASIS_75]
fm_config_europe ==
    [band |-> FM_BAND_COMMON, channel_spacing |-> FM_CHANNEL_SPACING_100,
     deemphasis |-> FM_DEEMPHASIS_50]

(***************************************************************************)
(* The bit macros of fm_si470x.c.  Shift(value, lsb) is (value) << lsb.    *)
(***************************************************************************)
RECURSIVE Shift(_, _)
Shift(value, lsb) == IF lsb = 0 THEN value ELSE Shift(2 * value, lsb - 1)

\* (reg & BIT) != 0 for a one-bit mask
fm_get_bit(reg, bit) == (reg \div bit) % 2 = 1

\* fm_set_bit(reg, bit, value): reg |= BIT, or reg &= ~BIT, for a one-bit mask
fm_set_bit(reg, bit, value) ==
    IF value THEN (IF fm_get_bit(reg, bit) THEN reg ELSE reg + bit)
    ELSE (IF fm_get_bit(reg, bit) THEN reg - bit ELSE reg)

\* fm_get_bits(reg, bits): (reg & BITS) >> LSB for a field mask BITS
fm_get_bits(reg, bits, lsb) ==
    (reg \div Shift(1, lsb)) % ((bits \div Shift(1, lsb)) + 1)

\* fm_set_bits(reg, bits, value): reg &= ~BITS; reg |= (value) << LSB; with reg a
\* uint16_t.  A value wider than the field is or-ed in as it is.
fm_set_bits(reg, bits, lsb, value) ==
    LET cleared == reg - Shift(fm_get_bits(reg, bits, lsb), lsb)
        shifted == Shift(value, lsb)
    IN IF shifted <= bits THEN cleared + shifted
       ELSE Or16(cleared, shifted % Word)

(***************************************************************************)
(* Frequency math (kHz).                                                   *)
(***************************************************************************)
fm_frequency_range(band, channel_spacing) ==
    [bottom |-> IF band = FM_BAND_COMMON THEN 87500 ELSE 76000,
     top |-> IF band = FM_BAND_COMMON THEN 108000
             ELSE IF band = FM_BAND_JAPAN_WIDE THEN 108000 ELSE 90000,
     spacing |-> IF channel_spacing = FM_CHANNEL_SPACING_200 THEN 200
                 ELSE IF channel_spacing = FM_CHANNEL_SPACING_100 THEN 100
                 ELSE 50]

fm_channel_to_frequency(channel, range) ==
    channel * range.spacing + range.bottom

\* variant: the channel is counted from 0 kHz, not from the bottom of the band
fm_frequency_to_channel_from_zero(frequency, range) ==
    ((2 * frequency + range.spacing) \div (2 * range.spacing)) % Word

\* variant: the quotient is truncated, not rounded
fm_frequency_to_channel_truncating(frequency, range) ==
    ((frequency - range.bottom) \div range.spacing) % Word

\* roundf rounds halfway cases away from zero; the argument is >= 0 for every
\* frequency at or above the bottom of the band
fm_frequency_to_channel(frequency, range) ==
    ((2 * (frequency - range.bottom) + range.spacing) \div (2 * range.spacing)) % Word


(***************************************************************************)
(* The machine a call runs on.                                             *)
(*   radio   the handle si470x_t (without the pin numbers and the bus      *)
(*           pointer, which no modelled code reads back)                   *)
(*   chip    the tuner at the other end of the bus                         *)
(*   now     time_us_64(), counted from the entry of the running call      *)
(*   bus     what the call did on the pins and the bus, in order           *)
(*   faults  short bus transfers still to come                             *)
(*   ctl     "run", or how the program ended: "assert", "panic"            *)
(*   ret     the call's return value (booleans as 1 / 0)                   *)
(*   progress  the fm_async_progress_t fm_async_task_tick returned last    *)
(*   prog    the fm_async_progress_t values the task routines returned,    *)
(*           in order                                                      *)
(***************************************************************************)
NoTask == "NULL"
TuneTask == "fm_set_frequency_async_task"
SeekTask == "fm_seek_async_task"

\* (fm_async_state_t){}
NoAsync == [task |-> NoTask, state |-> 0, resume_time |-> 0]

B2N(b) == IF b THEN 1 ELSE 0

Abort(m) == [m EXCEPT !.ctl = "assert"]
Panic(m) == [m EXCEPT !.ctl = "panic"]
Return(m, v) == [m EXCEPT !.ret = v]

\* sequencing: run F on every machine of S that is still running (an ended
\* program stays where it ended)
Then(S, F(_)) == UNION { IF m.ctl = "run" THEN F(m) ELSE {m} : m \in S }

sleep_ms(m, ms) == [m EXCEPT !.now = @ + ms * 1000]
time_us_64(m) == m.now

SetReg(m, r, v) == [m EXCEPT !.radio.regs[r] = v]

(***************************************************************************)
(* The chip and the I2C transport.                                         *)
(*                                                                         *)
(* The chip holds its CHIPID word, its writable registers 0x2..0x9 (bank), *)
(* the channel it is tuned to (chan) and the seek/tune-complete and        *)
(* seek-failed flags (stc, sfbl).  While a start bit (TUNE or SEEK) is set *)
(* in its registers and STC is clear, the operation may complete at any    *)
(* moment: a tune ends on the programmed channel, a seek on any channel,   *)
(* with or without SFBL.  STC stays set until the start bit has been       *)
(* cleared, and clears some time after that.  The driver sees the chip     *)
(* only through reads, so the chip moves when it is read.                  *)
(*                                                                         *)
(* A read burst returns the registers in the fixed order 0xA..0xF, 0x0..   *)
(* 0x9.  A transfer may come back short (at most MaxFaults times in a      *)
(* behaviour); a short write leaves the chip's registers as they were.     *)
(***************************************************************************)
\* channels a seek can be on when the chip is read
SeekChannels == {99}
RdsWords == [r \in RDSA..RDSD |-> 8704 + r]
ChipIdWords == {Shift(DEV_SI4702, DEV_LSB) + 19, Shift(DEV_SI4703, DEV_LSB) + 19}

\* the chip after the reset pin was pulsed
ChipReset(chipid) ==
    [chipid |-> chipid, bank |-> [r \in POWERCFG..BOOTCONFIG |-> 0],
     chan |-> 0, stc |-> FALSE, sfbl |-> FALSE]

\* what the chip may have done by the time it is read
ChipStep(c) ==
    LET tuning == fm_get_bit(c.bank[CHANNEL], TUNE_BIT)
        seeking == fm_get_bit(c.bank[POWERCFG], SEEK_BIT)
    IN IF tuning /\ ~c.stc
       THEN {c, [c EXCEPT !.stc = TRUE,
                          !.chan = fm_get_bits(c.bank[CHANNEL], CHAN_BITS, CHAN_LSB)]}
       ELSE IF seeking /\ ~c.stc
       THEN { [c EXCEPT !.chan = ch] : ch \in SeekChannels }
            \cup { [c EXCEPT !.chan = ch, !.stc = TRUE, !.sfbl = f] :
                   ch \in SeekChannels, f \in BOOLEAN }
       ELSE IF ~tuning /\ ~seeking /\ c.stc
       THEN {c, [c EXCEPT !.stc = FALSE, !.sfbl = FALSE]}
       ELSE {c}

\* register read at position i (1-based) of a read burst
ReadOrder(i) == (STATUSRSSI + i - 1) % 16

\* the word the chip c sends for register r: RSSI 40, stereo, an RDS group
\* ready unless a tune or seek is under way; BLERB bits above the channel
HwWord(c, r) ==
    IF r = STATUSRSSI
    THEN 40 + ST_BIT + (IF c.sfbl THEN SFBL_BIT ELSE 0)
            + (IF c.stc THEN STC_BIT ELSE 0)
            + (IF fm_get_bit(c.bank[CHANNEL], TUNE_BIT)
                  \/ fm_get_bit(c.bank[POWERCFG], SEEK_BIT) THEN 0 ELSE RDSR_BIT)
    ELSE IF r = READCHAN THEN 49152 + c.chan
    ELSE IF r >= RDSA THEN RdsWords[r]
    ELSE IF r = DEVICEID THEN 4674
    ELSE IF r = CHIPID THEN c.chipid
    ELSE c.bank[r]

\* big-endian bytes of a sequence of words, as the chip sends them
WireBytes(words) ==
    [i \in 1..(2 * Len(words)) |->
        IF i % 2 = 1 THEN words[(i + 1) \div 2] \div 256 ELSE words[i \div 2] % 256]

BusOp(op, len, ok, data) == [op |-> op, len |-> len, ok |-> ok, data |-> data]

\* i2c_read_blocking: the results a read of data_size bytes can have
i2c_read_blocking(m, data_size) ==
    LET n == data_size \div 2
        sent(c) == WireBytes([i \in 1..n |-> HwWord(c, ReadOrder(i))])
        good == { [result |-> data_size,
                   buf |-> sent(c),
                   m |-> [m EXCEPT !.chip = c,
                                   !.bus = Append(@, BusOp("read", data_size, TRUE, sent(c)))]] :
                  c \in ChipStep(m.chip) }
        short == IF m.faults > 0
                 THEN { [result |-> -1, buf |-> << >>,
                         m |-> [m EXCEPT !.faults = @ - 1,
                                         !.bus = Append(@, BusOp("read", data_size, FALSE, << >>))]] }
                 ELSE {}
    IN good \cup short

\* the chip's registers after it received the bytes buf, starting at 0x2
ChipWrite(bank, buf) ==
    [r \in POWERCFG..BOOTCONFIG |->
        IF 2 * (r - 1) <= Len(buf)
        THEN buf[2 * (r - 1) - 1] * 256 + buf[2 * (r - 1)]
        ELSE bank[r]]

\* i2c_write_blocking: the results a write of buf can have
i2c_write_blocking(m, buf) ==
    LET good == [result |-> Len(buf),
                 m |-> [m EXCEPT !.chip.bank = ChipWrite(@, buf),
                                 !.bus = Append(@, BusOp("write", Len(buf), TRUE, buf))]]
        short == IF m.faults > 0
                 THEN { [result |-> -1,
                         m |-> [m EXCEPT !.faults = @ - 1,
                                         !.bus = Append(@, BusOp("write", Len(buf), FALSE, buf))]] }
                 ELSE {}
    IN {good} \cup short

(***************************************************************************)
(* Register access.  ret is 1 for true, 0 for false.                       *)
(***************************************************************************)
\* variant: the low byte is taken first
DecodeInto_low_byte_first(regs, buf) ==
    [r \in 0..15 |->
        LET k == ((r + 16 - STATUSRSSI) % 16) + 1
        IN IF 2 * k <= Len(buf) THEN ((buf[2 * k] * 256) % Word) + buf[2 * k - 1]
           ELSE regs[r]]

\* the loop of fm_read_registers: byte pairs go to 0xA, 0xB, ..., 0xF, 0x0, ...
DecodeInto(regs, buf) ==
    [r \in 0..15 |->
        LET k == ((r + 16 - STATUSRSSI) % 16) + 1
        IN IF 2 * k <= Len(buf) THEN ((buf[2 * k - 1] * 256) % Word) + buf[2 * k]
           ELSE regs[r]]

fm_read_registers(m, n) ==
    IF ~(n <= 16) THEN {Abort(m)}
    ELSE LET data_size == n * 2
         IN { IF a.result # data_size
              THEN Return(a.m, 0)
              ELSE Return([a.m EXCEPT !.radio.regs = DecodeInto(@, a.buf)], 1) :
              a \in i2c_read_blocking(m, data_size) }

fm_read_registers_up_to(m, reg_index) ==
    IF ~(reg_index < 16) THEN {Abort(m)}
    ELSE fm_read_registers(m, IF reg_index < STATUSRSSI THEN reg_index + 7
                              ELSE reg_index - 9)

\* variant: the low byte is sent first
EncodeFrom_low_byte_first(regs, n) ==
    [i \in 1..(2 * n) |->
        IF i % 2 = 1 THEN regs[POWERCFG + (i - 1) \div 2] % 256
        ELSE regs[POWERCFG + (i - 1) \div 2] \div 256]

\* the loop of fm_write_registers: hi byte, lo byte of regs[0x2], regs[0x3], ...
EncodeFrom(regs, n) ==
    [i \in 1..(2 * n) |->
        IF i % 2 = 1 THEN regs[POWERCFG + (i - 1) \div 2] \div 256
        ELSE regs[POWERCFG + (i - 1) \div 2] % 256]

fm_write_registers(m, n) ==
    IF ~(n <= 14) THEN {Abort(m)}
    ELSE LET data_size == n * 2
         IN { Return(a.m, B2N(a.result = data_size)) :
              a \in i2c_write_blocking(m, EncodeFrom(m.radio.regs, n)) }

fm_write_registers_up_to(m, reg_index) ==
    IF ~(POWERCFG <= reg_index /\ reg_index <= RDSD) THEN {Abort(m)}
    ELSE fm_write_registers(m, reg_index - 1)

(***************************************************************************)
(* Public interface: lifecycle and queries of the handle.                  *)
(***************************************************************************)
\* fm_init: memset 0, then the three defaults
fm_init ==
    [config |-> [band |-> 0, channel_spacing |-> 0, deemphasis |-> 0],
     seek_sensitivity |-> FM_SEEK_SENSITIVITY_RECOMMENDED,
     frequency |-> 0,
     mute |-> TRUE,
     softmute |-> TRUE,
     softmute_rate |-> 0,
     softmute_attenuation |-> 0,
     mono |-> FALSE,
     volext |-> FALSE,
     volume |-> 0,
     regs |-> [r \in 0..15 |-> 0],
     async |-> NoAsync]

fm_is_powered_up(radio) == fm_get_bit(radio.regs[POWERCFG], ENABLE_BIT)

fm_is_rds_supported(radio) ==
    fm_get_bits(radio.regs[CHIPID], DEV_BITS, DEV_LSB) = DEV_SI4703

fm_get_frequency_range(radio) ==
    fm_frequency_range(radio.config.band, radio.config.channel_spacing)

fm_get_frequency(radio) == radio.frequency

Progress(m, done, result) ==
    [m EXCEPT !.prog = Append(@, [done |-> done, result |-> result])]

(***************************************************************************)
(* The async task engine.                                                  *)
(***************************************************************************)
\* do { fm_read_registers_up_to(STATUSRSSI); } while (STC);  a machine that has
\* not seen STC clear after `fuel` reads has not returned and is left out
RECURSIVE WaitStcClear(_, _)
WaitStcClear(m, fuel) ==
    IF fuel = 0 THEN {}
    ELSE Then(fm_read_registers_up_to(m, STATUSRSSI),
              LAMBDA a : IF fm_get_bit(a.radio.regs[STATUSRSSI], STC_BIT)
                         THEN WaitStcClear(a, fuel - 1)
                         ELSE {a})

\* variant: the stop write is followed at once by the channel read, without the
\* wait for STC clear
StopAndReadChannel_no_wait(m, reg_index, result) ==
    Then(Then(fm_write_registers_up_to(m, reg_index),
              LAMBDA b : fm_read_registers_up_to(b, READCHAN)),
         LAMBDA c :
            LET channel == fm_get_bits(c.radio.regs[READCHAN], READCHAN_BITS, READCHAN_LSB)
            IN { Progress([c EXCEPT !.radio.frequency =
                              fm_channel_to_frequency(channel, fm_get_frequency_range(c.radio))],
                          TRUE, result) })

\* variant: the stop sequence leaves radio->frequency as it was cached
StopAndReadChannel_keeps_frequency(m, reg_index, result) ==
    Then(Then(Then(fm_write_registers_up_to(m, reg_index),
                   LAMBDA a : WaitStcClear(a, MaxSpin)),
              LAMBDA b : fm_read_registers_up_to(b, READCHAN)),
         LAMBDA c : { Progress(c, TRUE, result) })

\* the tail shared by both task routines: after the start bit was cleared in
\* the shadow, write through reg_index, wait for STC clear, read the channel
StopAndReadChannel(m, reg_index, result) ==
    Then(Then(Then(fm_write_registers_up_to(m, reg_index),
                   LAMBDA a : WaitStcClear(a, MaxSpin)),
              LAMBDA b : fm_read_registers_up_to(b, READCHAN)),
         LAMBDA c :
            LET channel == fm_get_bits(c.radio.regs[READCHAN], READCHAN_BITS, READCHAN_LSB)
            IN { Progress([c EXCEPT !.radio.frequency =
                              fm_channel_to_frequency(channel, fm_get_frequency_range(c.radio))],
                          TRUE, result) })

\* variant: the tune task stops without clearing TUNE in the shadow
fm_set_frequency_async_task_keeps_tune(m, cancel) ==
    IF m.radio.async.task # TuneTask THEN {Abort(m)}
    ELSE IF m.radio.async.state # 1 THEN {Abort(m)}
    ELSE LET finish(a, result) == StopAndReadChannel(a, CHANNEL, result)
         IN IF cancel THEN finish(m, -1)
            ELSE Then(fm_read_registers_up_to(m, STATUSRSSI),
                      LAMBDA a :
                         IF ~fm_get_bit(a.radio.regs[STATUSRSSI], STC_BIT)
                         THEN { Progress([a EXCEPT !.radio.async.resume_time =
                                             time_us_64(a) + TUNE_POLL_INTERVAL_MS * 1000],
                                         FALSE, 0) }
                         ELSE finish(a, 0))

\* variant: a tune tick that finds STC clear leaves the resume time as it was
fm_set_frequency_async_task_no_rearm(m, cancel) ==
    IF m.radio.async.task # TuneTask THEN {Abort(m)}
    ELSE IF m.radio.async.state # 1 THEN {Abort(m)}
    ELSE LET finish(a, result) ==
                 StopAndReadChannel(
                     SetReg(a, CHANNEL, fm_set_bit(a.radio.regs[CHANNEL], TUNE_BIT, FALSE)),
                     CHANNEL, result)
         IN IF cancel THEN finish(m, -1)
            ELSE Then(fm_read_registers_up_to(m, STATUSRSSI),
                      LAMBDA a :
                         IF ~fm_get_bit(a.radio.regs[STATUSRSSI], STC_BIT)
                         THEN { Progress(a, FALSE, 0) }
                         ELSE finish(a, 0))

fm_set_frequency_async_task(m, cancel) ==
    IF m.radio.async.task # TuneTask THEN {Abort(m)}
    ELSE IF m.radio.async.state # 1 THEN {Abort(m)}
    ELSE LET finish(a, result) ==
                 StopAndReadChannel(
                     SetReg(a, CHANNEL, fm_set_bit(a.radio.regs[CHANNEL], TUNE_BIT, FALSE)),
                     CHANNEL, result)
         IN IF cancel THEN finish(m, -1)
            ELSE Then(fm_read_registers_up_to(m, STATUSRSSI),
                      LAMBDA a :
                         IF ~fm_get_bit(a.radio.regs[STATUSRSSI], STC_BIT)
                         THEN { Progress([a EXCEPT !.radio.async.resume_time =
                                             time_us_64(a) + TUNE_POLL_INTERVAL_MS * 1000],
                                         FALSE, 0) }
                         ELSE finish(a, 0))

\* variant: a seek tick that finds STC clear leaves radio->frequency alone
fm_seek_async_task_no_refresh(m, cancel) ==
    IF m.radio.async.task # SeekTask THEN {Abort(m)}
    ELSE IF m.radio.async.state # 1 THEN {Abort(m)}
    ELSE LET finish(a, result) ==
                 StopAndReadChannel(
                     SetReg(a, POWERCFG, fm_set_bit(a.radio.regs[POWERCFG], SEEK_BIT, FALSE)),
                     POWERCFG, result)
         IN IF cancel THEN finish(m, -1)
            ELSE Then(fm_read_registers_up_to(m, READCHAN),
                      LAMBDA a :
                         IF ~fm_get_bit(a.radio.regs[STATUSRSSI], STC_BIT)
                         THEN { Progress([a EXCEPT
                                       !.radio.async.resume_time =
                                            time_us_64(a) + SEEK_POLL_INTERVAL_MS * 1000],
                                     FALSE, 0) }
                         ELSE finish(a, IF fm_get_bit(a.radio.regs[STATUSRSSI], SFBL_BIT)
                                        THEN -1 ELSE 0))

\* variant: a seek that completed reports result 0 whatever SFBL says
fm_seek_async_task_ignores_sfbl(m, cancel) ==
    IF m.radio.async.task # SeekTask THEN {Abort(m)}
    ELSE IF m.radio.async.state # 1 THEN {Abort(m)}
    ELSE LET finish(a, result) ==
                 StopAndReadChannel(
                     SetReg(a, POWERCFG, fm_set_bit(a.radio.regs[POWERCFG], SEEK_BIT, FALSE)),
                     POWERCFG, result)
         IN IF cancel THEN finish(m, -1)
            ELSE Then(fm_read_registers_up_to(m, READCHAN),
                      LAMBDA a :
                         IF ~fm_get_bit(a.radio.regs[STATUSRSSI], STC_BIT)
                         THEN LET channel == fm_get_bits(a.radio.regs[READCHAN],
                                                         READCHAN_BITS, READCHAN_LSB)
                              IN { Progress([a EXCEPT
                                       !.radio.frequency = fm_channel_to_frequency(
                                            channel, fm_get_frequency_range(a.radio)),
                                       !.radio.async.resume_time =
                                            time_us_64(a) + SEEK_POLL_INTERVAL_MS * 1000],
                                     FALSE, 0) }
                         ELSE finish(a, 0))

fm_seek_async_task(m, cancel) ==
    IF m.radio.async.task # SeekTask THEN {Abort(m)}
    ELSE IF m.radio.async.state # 1 THEN {Abort(m)}
    ELSE LET finish(a, result) ==
                 StopAndReadChannel(
                     SetReg(a, POWERCFG, fm_set_bit(a.radio.regs[POWERCFG], SEEK_BIT, FALSE)),
                     POWERCFG, result)
         IN IF cancel THEN finish(m, -1)
            ELSE Then(fm_read_registers_up_to(m, READCHAN),
                      LAMBDA a :
                         IF ~fm_get_bit(a.radio.regs[STATUSRSSI], STC_BIT)
                         THEN LET channel == fm_get_bits(a.radio.regs[READCHAN],
                                                         READCHAN_BITS, READCHAN_LSB)
                              IN { Progress([a EXCEPT
                                       !.radio.frequency = fm_channel_to_frequency(
                                            channel, fm_get_frequency_range(a.radio)),
                                       !.radio.async.resume_time =
                                            time_us_64(a) + SEEK_POLL_INTERVAL_MS * 1000],
                                     FALSE, 0) }
                         ELSE finish(a, IF fm_get_bit(a.radio.regs[STATUSRSSI], SFBL_BIT)
                                        THEN -1 ELSE 0))

\* radio->async.task(radio, cancel), for a non-NULL task pointer
CallTask(m, cancel) ==
    IF m.radio.async.task = TuneTask THEN fm_set_frequency_async_task(m, cancel)
    ELSE fm_seek_async_task(m, cancel)

LastProgress(m) == m.prog[Len(m.prog)]

\* variant: fm_async_task_tick without the resume-time gate
fm_async_task_tick_ungated(m) ==
    IF m.radio.async.task = NoTask THEN {Abort(m)}
    ELSE Then(CallTask(m, FALSE),
              LAMBDA a :
                 { [a EXCEPT !.progress = LastProgress(a),
                             !.radio.async = IF LastProgress(a).done THEN NoAsync ELSE @] })

fm_async_task_tick(m) ==
    IF m.radio.async.task = NoTask THEN {Abort(m)}
    ELSE IF time_us_64(m) < m.radio.async.resume_time
    THEN { [m EXCEPT !.progress = [done |-> FALSE, result |-> 0]] }
    ELSE Then(CallTask(m, FALSE),
              LAMBDA a :
                 { [a EXCEPT !.progress = LastProgress(a),
                             !.radio.async = IF LastProgress(a).done THEN NoAsync ELSE @] })

\* variant: fm_async_task_cancel that does not clear the slot
fm_async_task_cancel_keeps_slot(m) ==
    IF m.radio.async.task = NoTask THEN {Abort(m)}
    ELSE CallTask(m, TRUE)

fm_async_task_cancel(m) ==
    IF m.radio.async.task = NoTask THEN {Abort(m)}
    ELSE Then(CallTask(m, TRUE), LAMBDA a : { [a EXCEPT !.radio.async = NoAsync] })

\* do { sleep_ms(interval); progress = fm_async_task_tick(radio); } while (!progress.done);
\* a machine not done after `fuel` polls has not returned and is left out
RECURSIVE PollUntilDone(_, _, _)
PollUntilDone(m, interval_ms, fuel) ==
    IF fuel = 0 THEN {}
    ELSE Then(fm_async_task_tick(sleep_ms(m, interval_ms)),
              LAMBDA a : IF a.progress.done THEN {a}
                         ELSE PollUntilDone(a, interval_ms, fuel - 1))

(***************************************************************************)
(* Tune and seek.                                                          *)
(***************************************************************************)
\* variant: fm_set_frequency_async without assert(radio->async.task == NULL)
fm_set_frequency_async_unguarded(m, frequency) ==
    IF ~fm_is_powered_up(m.radio) THEN {Abort(m)}
    ELSE LET channel == fm_frequency_to_channel(frequency, fm_get_frequency_range(m.radio))
             chan == fm_set_bits(m.radio.regs[CHANNEL], CHAN_BITS, CHAN_LSB, channel)
             m1 == SetReg(m, CHANNEL, fm_set_bit(chan, TUNE_BIT, TRUE))
         IN { [a EXCEPT !.radio.async =
                  [task |-> TuneTask, state |-> 1,
                   resume_time |-> time_us_64(a) + TUNE_POLL_INTERVAL_MS * 1000]] :
              a \in fm_write_registers_up_to(m1, CHANNEL) }

\* variant: fm_set_frequency_async that caches the requested frequency at once
fm_set_frequency_async_caches(m, frequency) ==
    IF ~fm_is_powered_up(m.radio) THEN {Abort(m)}
    ELSE IF m.radio.async.task # NoTask THEN {Abort(m)}
    ELSE LET channel == fm_frequency_to_channel(frequency, fm_get_frequency_range(m.radio))
             chan == fm_set_bits(m.radio.regs[CHANNEL], CHAN_BITS, CHAN_LSB, channel)
             m1 == SetReg(m, CHANNEL, fm_set_bit(chan, TUNE_BIT, TRUE))
         IN { [a EXCEPT !.radio.frequency = frequency,
                        !.radio.async =
                  [task |-> TuneTask, state |-> 1,
                   resume_time |-> time_us_64(a) + TUNE_POLL_INTERVAL_MS * 1000]] :
              a \in fm_write_registers_up_to(m1, CHANNEL) }

fm_set_frequency_async(m, frequency) ==
    IF ~fm_is_powered_up(m.radio) THEN {Abort(m)}
    ELSE IF m.radio.async.task # NoTask THEN {Abort(m)}
    ELSE LET channel == fm_frequency_to_channel(frequency, fm_get_frequency_range(m.radio))
             chan == fm_set_bits(m.radio.regs[CHANNEL], CHAN_BITS, CHAN_LSB, channel)
             m1 == SetReg(m, CHANNEL, fm_set_bit(chan, TUNE_BIT, TRUE))
         IN { [a EXCEPT !.radio.async =
                  [task |-> TuneTask, state |-> 1,
                   resume_time |-> time_us_64(a) + TUNE_POLL_INTERVAL_MS * 1000]] :
              a \in fm_write_registers_up_to(m1, CHANNEL) }

\* variant: fm_set_frequency_blocking without the return for the cached frequency
fm_set_frequency_blocking_always_tunes(m, frequency) ==
    IF ~fm_is_powered_up(m.radio) THEN {Abort(m)}
    ELSE IF m.radio.async.task # NoTask THEN {Abort(m)}
    ELSE Then(fm_set_frequency_async(m, frequency),
              LAMBDA a : PollUntilDone(a, TUNE_POLL_INTERVAL_MS, MaxPolls))

fm_set_frequency_blocking(m, frequency) ==
    IF ~fm_is_powered_up(m.radio) THEN {Abort(m)}
    ELSE IF m.radio.async.task # NoTask THEN {Abort(m)}
    ELSE IF m.radio.frequency = frequency THEN {m}
    ELSE Then(fm_set_frequency_async(m, frequency),
              LAMBDA a : PollUntilDone(a, TUNE_POLL_INTERVAL_MS, MaxPolls))

\* variant: fm_seek_async that leaves radio->async.state at 0
fm_seek_async_no_state(m, direction) ==
    IF ~fm_is_powered_up(m.radio) THEN {Abort(m)}
    ELSE IF m.radio.async.task # NoTask THEN {Abort(m)}
    ELSE LET r1 == fm_set_bit(m.radio.regs[POWERCFG], SKMODE_BIT, FALSE)
             r2 == fm_set_bit(r1, SEEKUP_BIT, direction = FM_SEEK_UP)
             r3 == fm_set_bit(r2, SEEK_BIT, TRUE)
         IN { [a EXCEPT !.radio.async =
                  [task |-> SeekTask, state |-> 0,
                   resume_time |-> time_us_64(a) + SEEK_POLL_INTERVAL_MS * 1000]] :
              a \in fm_write_registers_up_to(SetReg(m, POWERCFG, r3), POWERCFG) }

\* variant: fm_seek_async that leaves SKMODE as it is in the shadow
fm_seek_async_keeps_mode(m, direction) ==
    IF ~fm_is_powered_up(m.radio) THEN {Abort(m)}
    ELSE IF m.radio.async.task # NoTask THEN {Abort(m)}
    ELSE LET r2 == fm_set_bit(m.radio.regs[POWERCFG], SEEKUP_BIT, direction = FM_SEEK_UP)
             r3 == fm_set_bit(r2, SEEK_BIT, TRUE)
         IN { [a EXCEPT !.radio.async =
                  [task |-> SeekTask, state |-> 1,
                   resume_time |-> time_us_64(a) + SEEK_POLL_INTERVAL_MS * 1000]] :
              a \in fm_write_registers_up_to(SetReg(m, POWERCFG, r3), POWERCFG) }

fm_seek_async(m, direction) ==
    IF ~fm_is_powered_up(m.radio) THEN {Abort(m)}
    ELSE IF m.radio.async.task # NoTask THEN {Abort(m)}
    ELSE LET r1 == fm_set_bit(m.radio.regs[POWERCFG], SKMODE_BIT, FALSE)
             r2 == fm_set_bit(r1, SEEKUP_BIT, direction = FM_SEEK_UP)
             r3 == fm_set_bit(r2, SEEK_BIT, TRUE)
         IN { [a EXCEPT !.radio.async =
                  [task |-> SeekTask, state |-> 1,
                   resume_time |-> time_us_64(a) + SEEK_POLL_INTERVAL_MS * 1000]] :
              a \in fm_write_registers_up_to(SetReg(m, POWERCFG, r3), POWERCFG) }

fm_seek_blocking(m, direction) ==
    IF m.radio.async.task # NoTask THEN {Abort(m)}
    ELSE Then(Then(fm_seek_async(m, direction),
                   LAMBDA a : PollUntilDone(a, SEEK_POLL_INTERVAL_MS, MaxPolls)),
              LAMBDA b : { Return(b, B2N(b.progress.result = 0)) })

(***************************************************************************)
(* Seek sensitivity and the other setters.                                 *)
(***************************************************************************)
SeekTh(seek_sensitivity) ==
    IF seek_sensitivity = FM_SEEK_SENSITIVITY_STRONG_ONLY THEN 12
    ELSE IF seek_sensitivity = FM_SEEK_SENSITIVITY_RECOMMENDED THEN 25
    ELSE IF seek_sensitivity = FM_SEEK_SENSITIVITY_MORE THEN 12
    ELSE 0

SkSnr(seek_sensitivity) ==
    IF seek_sensitivity = FM_SEEK_SENSITIVITY_STRONG_ONLY THEN 7 ELSE 4

SkCnt(seek_sensitivity) ==
    IF seek_sensitivity = FM_SEEK_SENSITIVITY_STRONG_ONLY THEN 15
    ELSE IF seek_sensitivity = FM_SEEK_SENSITIVITY_RECOMMENDED THEN 8
    ELSE IF seek_sensitivity = FM_SEEK_SENSITIVITY_MORE THEN 8
    ELSE 15

fm_set_seek_sensitivity_bits(regs, seek_sensitivity) ==
    [regs EXCEPT
        ![SYSCONFIG2] = fm_set_bits(@, SEEKTH_BITS, SEEKTH_LSB, SeekTh(seek_sensitivity)),
        ![SYSCONFIG3] = fm_set_bits(
                            fm_set_bits(@, SKSNR_BITS, SKSNR_LSB, SkSnr(seek_sensitivity)),
                            SKCNT_BITS, SKCNT_LSB, SkCnt(seek_sensitivity))]

\* variant: the setter without the early return for the cached value
Setter_always_writes(m, same, after, reg_index) ==
    IF ~fm_is_powered_up(m.radio) THEN {Abort(m)}
    ELSE IF m.radio.async.task # NoTask THEN {Abort(m)}
    ELSE { [a EXCEPT !.radio = after] :
           a \in fm_write_registers_up_to([m EXCEPT !.radio.regs = after.regs], reg_index) }

\* variant: the setter looks at the cached value before its asserts
Setter_same_first(m, same, after, reg_index) ==
    IF same THEN {m}
    ELSE IF ~fm_is_powered_up(m.radio) THEN {Abort(m)}
    ELSE IF m.radio.async.task # NoTask THEN {Abort(m)}
    ELSE { [a EXCEPT !.radio = after] :
           a \in fm_write_registers_up_to([m EXCEPT !.radio.regs = after.regs], reg_index) }

\* the shape every setter has: the two asserts, the early return when the value
\* is the cached one, the shadow edit, one write burst through reg_index, the
\* cache update.  `after` is the handle with the shadow edited and the value
\* cached; the write burst leaves the handle alone.
Setter(m, same, after, reg_index) ==
    IF ~fm_is_powered_up(m.radio) THEN {Abort(m)}
    ELSE IF m.radio.async.task # NoTask THEN {Abort(m)}
    ELSE IF same THEN {m}
    ELSE { [a EXCEPT !.radio = after] :
           a \in fm_write_registers_up_to([m EXCEPT !.radio.regs = after.regs], reg_index) }

fm_set_seek_sensitivity(m, seek_sensitivity) ==
    Setter(m, m.radio.seek_sensitivity = seek_sensitivity,
           [m.radio EXCEPT
               !.regs = fm_set_seek_sensitivity_bits(@, seek_sensitivity),
               !.seek_sensitivity = seek_sensitivity],
           SYSCONFIG3)

fm_set_mute(m, mute) ==
    Setter(m, m.radio.mute = mute,
           [m.radio EXCEPT !.regs[POWERCFG] = fm_set_bit(@, DMUTE_BIT, ~mute),
                           !.mute = mute],
           POWERCFG)

fm_set_softmute(m, softmute) ==
    Setter(m, m.radio.softmute = softmute,
           [m.radio EXCEPT !.regs[POWERCFG] = fm_set_bit(@, DSMUTE_BIT, ~softmute),
                           !.softmute = softmute],
           POWERCFG)

fm_set_softmute_rate(m, softmute_rate) ==
    Setter(m, m.radio.softmute_rate = softmute_rate,
           [m.radio EXCEPT
               !.regs[SYSCONFIG3] = fm_set_bits(@, SMUTER_BITS, SMUTER_LSB, softmute_rate),
               !.softmute_rate = softmute_rate],
           SYSCONFIG3)

fm_set_softmute_attenuation(m, softmute_attenuation) ==
    Setter(m, m.radio.softmute_attenuation = softmute_attenuation,
           [m.radio EXCEPT
               !.regs[SYSCONFIG3] = fm_set_bits(@, SMUTEA_BITS, SMUTEA_LSB,
                                                softmute_attenuation),
               !.softmute_attenuation = softmute_attenuation],
           SYSCONFIG3)

fm_set_mono(m, mono) ==
    Setter(m, m.radio.mono = mono,
           [m.radio EXCEPT !.regs[POWERCFG] = fm_set_bit(@, MONO_BIT, mono),
                           !.mono = mono],
           POWERCFG)

fm_set_volume(m, volume_arg, volext) ==
    LET volume == IF volume_arg < FM_MAX_VOLUME THEN volume_arg ELSE FM_MAX_VOLUME
    IN Setter(m, m.radio.volume = volume /\ m.radio.volext = volext,
              [m.radio EXCEPT
                  !.regs[SYSCONFIG2] = fm_set_bits(@, VOLUME_BITS, VOLUME_LSB, volume),
                  !.regs[SYSCONFIG3] = fm_set_bit(@, VOLEXT_BIT, volext),
                  !.volume = volume, !.volext = volext],
              SYSCONFIG3)

fm_get_volume(radio) == radio.volume

fm_get_volext(radio) == radio.volext

(***************************************************************************)
(* The example's volume handling: one range 0..30 mapped onto the volume   *)
(* level and the VOLEXT bit.                                               *)
(***************************************************************************)
\* uint8_t get_volume()
get_volume(radio) ==
    LET volume == fm_get_volume(radio)
    IN IF volume # 0 /\ ~fm_get_volext(radio) THEN (volume + 15) % 256 ELSE volume

\* variant: the low range ends at 14
set_volume_low_below_15(m, volume) ==
    IF ~(volume <= 30) THEN {Abort(m)}
    ELSE IF volume < 15 THEN fm_set_volume(m, volume, TRUE)
    ELSE fm_set_volume(m, (volume + 256 - 15) % 256, FALSE)

\* void set_volume(uint8_t volume)
set_volume(m, volume) ==
    IF ~(volume <= 30) THEN {Abort(m)}
    ELSE IF volume < 16 THEN fm_set_volume(m, volume, TRUE)
    ELSE fm_set_volume(m, (volume + 256 - 15) % 256, FALSE)

(***************************************************************************)
(* Read-only queries.                                                      *)
(***************************************************************************)
\* variant: fm_get_rssi without assert(fm_is_powered_up(radio))
fm_get_rssi_unchecked(m) ==
    { Return(a, fm_get_bits(a.radio.regs[STATUSRSSI], RSSI_BITS, RSSI_LSB) % 256) :
      a \in fm_read_registers_up_to(m, STATUSRSSI) }

fm_get_rssi(m) ==
    IF ~fm_is_powered_up(m.radio) THEN {Abort(m)}
    ELSE { Return(a, fm_get_bits(a.radio.regs[STATUSRSSI], RSSI_BITS, RSSI_LSB) % 256) :
           a \in fm_read_registers_up_to(m, STATUSRSSI) }

fm_get_stereo_indicator(m) ==
    IF ~fm_is_powered_up(m.radio) THEN {Abort(m)}
    ELSE { Return(a, B2N(fm_get_bit(a.radio.regs[STATUSRSSI], ST_BIT))) :
           a \in fm_read_registers_up_to(m, STATUSRSSI) }

\* on true the four blocks are regs[RDSA..RDSD]
fm_read_rds_group(m) ==
    IF ~fm_is_powered_up(m.radio) THEN {Abort(m)}
    ELSE IF ~fm_is_rds_supported(m.radio) THEN {Abort(m)}
    ELSE { Return(a, B2N(fm_get_bit(a.radio.regs[STATUSRSSI], RDSR_BIT))) :
           a \in fm_read_registers_up_to(m, RDSD) }

(***************************************************************************)
(* Power lifecycle.                                                        *)
(***************************************************************************)
\* the AN230 pin sequence of the cold path: reset low, 5 ms, reset high, 5 ms;
\* the chip comes out of it with its registers at their reset values
PinReset(m) ==
    sleep_ms(sleep_ms([m EXCEPT !.chip = ChipReset(@.chipid),
                                !.bus = Append(@, BusOp("reset", 0, TRUE, << >>))],
                      5), 5)

\* variant: the "setup" block leaves the VOLUME field as it was read
SetupBits_keeps_volume(radio, config) ==
    LET regs == radio.regs
        powercfg == fm_set_bit(fm_set_bit(fm_set_bit(regs[POWERCFG],
                        MONO_BIT, radio.mono), DMUTE_BIT, ~radio.mute),
                        DSMUTE_BIT, ~radio.softmute)
        rds == IF fm_is_rds_supported(radio)
               THEN fm_set_bit(regs[SYSCONFIG1], RDS_BIT, TRUE)
               ELSE regs[SYSCONFIG1]
        sysconfig1 == fm_set_bit(rds, DE_BIT, config.deemphasis = FM_DEEMPHASIS_50)
        sysconfig2 == fm_set_bits(fm_set_bits(regs[SYSCONFIG2],
                        BAND_BITS, BAND_LSB, config.band),
                        SPACE_BITS, SPACE_LSB, config.channel_spacing)
        sysconfig3 == fm_set_bits(fm_set_bits(fm_set_bit(regs[SYSCONFIG3],
                        VOLEXT_BIT, radio.volext),
                        SMUTEA_BITS, SMUTEA_LSB, radio.softmute_attenuation),
                        SMUTER_BITS, SMUTER_LSB, radio.softmute_rate)
    IN fm_set_seek_sensitivity_bits(
           [regs EXCEPT ![POWERCFG] = powercfg, ![SYSCONFIG1] = sysconfig1,
                        ![SYSCONFIG2] = sysconfig2, ![SYSCONFIG3] = sysconfig3],
           radio.seek_sensitivity)

\* the "setup" block of the cold path, lines 261-275
SetupBits(radio, config) ==
    LET regs == radio.regs
        powercfg == fm_set_bit(fm_set_bit(fm_set_bit(regs[POWERCFG],
                        MONO_BIT, radio.mono), DMUTE_BIT, ~radio.mute),
                        DSMUTE_BIT, ~radio.softmute)
        rds == IF fm_is_rds_supported(radio)
               THEN fm_set_bit(regs[SYSCONFIG1], RDS_BIT, TRUE)
               ELSE regs[SYSCONFIG1]
        sysconfig1 == fm_set_bit(rds, DE_BIT, config.deemphasis = FM_DEEMPHASIS_50)
        sysconfig2 == fm_set_bits(fm_set_bits(fm_set_bits(regs[SYSCONFIG2],
                        VOLUME_BITS, VOLUME_LSB, radio.volume),
                        BAND_BITS, BAND_LSB, config.band),
                        SPACE_BITS, SPACE_LSB, config.channel_spacing)
        sysconfig3 == fm_set_bits(fm_set_bits(fm_set_bit(regs[SYSCONFIG3],
                        VOLEXT_BIT, radio.volext),
                        SMUTEA_BITS, SMUTEA_LSB, radio.softmute_attenuation),
                        SMUTER_BITS, SMUTER_LSB, radio.softmute_rate)
    IN fm_set_seek_sensitivity_bits(
           [regs EXCEPT ![POWERCFG] = powercfg, ![SYSCONFIG1] = sysconfig1,
                        ![SYSCONFIG2] = sysconfig2, ![SYSCONFIG3] = sysconfig3],
           radio.seek_sensitivity)

\* variant: the fast path without the RDS restore
PowerUpFast_no_rds(m) ==
    LET powercfg == fm_set_bit(fm_set_bit(fm_set_bit(m.radio.regs[POWERCFG],
                        ENABLE_BIT, TRUE), DISABLE_BIT, FALSE), DMUTE_BIT, ~m.radio.mute)
    IN Then(fm_write_registers_up_to(SetReg(m, POWERCFG, powercfg), POWERCFG),
            LAMBDA a : { sleep_ms(a, 110) })

\* variant: the fast path without the restore of DMUTE
PowerUpFast_stays_muted(m) ==
    LET powercfg == fm_set_bit(fm_set_bit(m.radio.regs[POWERCFG],
                        ENABLE_BIT, TRUE), DISABLE_BIT, FALSE)
    IN Then(fm_write_registers_up_to(SetReg(m, POWERCFG, powercfg), POWERCFG),
            LAMBDA a :
               LET b == sleep_ms(a, 110)
               IN IF fm_is_rds_supported(b.radio)
                  THEN fm_write_registers_up_to(
                           SetReg(b, SYSCONFIG1,
                                  fm_set_bit(b.radio.regs[SYSCONFIG1], RDS_BIT, TRUE)),
                           SYSCONFIG1)
                  ELSE {b})

\* lines 198-209
PowerUpFast(m) ==
    LET powercfg == fm_set_bit(fm_set_bit(fm_set_bit(m.radio.regs[POWERCFG],
                        ENABLE_BIT, TRUE), DISABLE_BIT, FALSE), DMUTE_BIT, ~m.radio.mute)
    IN Then(fm_write_registers_up_to(SetReg(m, POWERCFG, powercfg), POWERCFG),
            LAMBDA a :
               LET b == sleep_ms(a, 110)
               IN IF fm_is_rds_supported(b.radio)
                  THEN fm_write_registers_up_to(
                           SetReg(b, SYSCONFIG1,
                                  fm_set_bit(b.radio.regs[SYSCONFIG1], RDS_BIT, TRUE)),
                           SYSCONFIG1)
                  ELSE {b})

\* variant: the cold path that retunes without zeroing radio->frequency first
PowerUpCold_keeps_frequency(m, config) ==
    LET m0 == PinReset([m EXCEPT !.radio.config = config])
        identified(a) ==
            fm_get_bits(a.radio.regs[DEVICEID], MFGID_BITS, MFGID_LSB) = 578
            /\ fm_get_bits(a.radio.regs[DEVICEID], PN_BITS, PN_LSB) = 1
        oscillator(a) ==
            LET r == [a.radio.regs EXCEPT ![TEST1] = fm_set_bit(@, XOSCEN_BIT, TRUE), ![RDSD] = 0]
            IN { sleep_ms(b, 500) :
                 b \in fm_write_registers_up_to([a EXCEPT !.radio.regs = r], RDSD) }
        enable(a) ==
            { sleep_ms(b, 110) :
              b \in fm_write_registers_up_to(SetReg(a, POWERCFG, ENABLE_BIT), POWERCFG) }
        variant(a) ==
            LET dev == fm_get_bits(a.radio.regs[CHIPID], DEV_BITS, DEV_LSB)
            IN dev = DEV_SI4702 \/ dev = DEV_SI4703
        setup(a) ==
            fm_write_registers_up_to(
                [a EXCEPT !.radio.regs = SetupBits(a.radio, config)], SYSCONFIG3)
        retune(a) ==
            IF a.radio.frequency # 0
            THEN fm_set_frequency_blocking(a, a.radio.frequency)
            ELSE {a}
    IN Then(Then(Then(Then(Then(Then(
            fm_read_registers(m0, 16),
            LAMBDA a : IF a.ret = 0 THEN {Panic(a)}
                       ELSE IF ~identified(a) THEN {Abort(a)} ELSE {a}),
            oscillator),
            enable),
            LAMBDA a : Then(fm_read_registers(a, 16),
                            LAMBDA b : IF ~variant(b) THEN {Abort(b)} ELSE {b})),
            setup),
            retune)

\* lines 213-282
PowerUpCold(m, config) ==
    LET m0 == PinReset([m EXCEPT !.radio.config = config])
        identified(a) ==
            fm_get_bits(a.radio.regs[DEVICEID], MFGID_BITS, MFGID_LSB) = 578
            /\ fm_get_bits(a.radio.regs[DEVICEID], PN_BITS, PN_LSB) = 1
        oscillator(a) ==
            LET r == [a.radio.regs EXCEPT ![TEST1] = fm_set_bit(@, XOSCEN_BIT, TRUE), ![RDSD] = 0]
            IN { sleep_ms(b, 500) :
                 b \in fm_write_registers_up_to([a EXCEPT !.radio.regs = r], RDSD) }
        enable(a) ==
            { sleep_ms(b, 110) :
              b \in fm_write_registers_up_to(SetReg(a, POWERCFG, ENABLE_BIT), POWERCFG) }
        variant(a) ==
            LET dev == fm_get_bits(a.radio.regs[CHIPID], DEV_BITS, DEV_LSB)
            IN dev = DEV_SI4702 \/ dev = DEV_SI4703
        setup(a) ==
            fm_write_registers_up_to(
                [a EXCEPT !.radio.regs = SetupBits(a.radio, config)], SYSCONFIG3)
        retune(a) ==
            IF a.radio.frequency # 0
            THEN fm_set_frequency_blocking([a EXCEPT !.radio.frequency = 0],
                                           a.radio.frequency)
            ELSE {a}
    IN Then(Then(Then(Then(Then(Then(
            fm_read_registers(m0, 16),
            LAMBDA a : IF a.ret = 0 THEN {Panic(a)}
                       ELSE IF ~identified(a) THEN {Abort(a)} ELSE {a}),
            oscillator),
            enable),
            LAMBDA a : Then(fm_read_registers(a, 16),
                            LAMBDA b : IF ~variant(b) THEN {Abort(b)} ELSE {b})),
            setup),
            retune)

fm_power_up(m, config) ==
    IF fm_is_powered_up(m.radio) THEN {Abort(m)}
    ELSE IF fm_get_bit(m.radio.regs[POWERCFG], DISABLE_BIT) /\ m.radio.config = config
    THEN PowerUpFast(m)
    ELSE PowerUpCold(m, config)

\* variant: a pending task is left in the slot
fm_power_down_no_cancel(m) ==
    IF ~fm_is_powered_up(m.radio) THEN {Abort(m)}
    ELSE LET rds_off(a) ==
                 IF fm_is_rds_supported(a.radio)
                 THEN fm_write_registers_up_to(
                          SetReg(a, SYSCONFIG1,
                                 fm_set_bit(a.radio.regs[SYSCONFIG1], RDS_BIT, FALSE)),
                          SYSCONFIG1)
                 ELSE {a}
             disable(a) ==
                 LET powercfg == fm_set_bit(fm_set_bit(a.radio.regs[POWERCFG],
                                     DMUTE_BIT, FALSE), DISABLE_BIT, TRUE)
                 IN { SetReg(b, POWERCFG,
                             fm_set_bit(b.radio.regs[POWERCFG], ENABLE_BIT, FALSE)) :
                      b \in fm_write_registers_up_to(SetReg(a, POWERCFG, powercfg), POWERCFG) }
         IN Then(Then({m}, rds_off), disable)

\* variant: ENABLE is cleared in the shadow before the POWERCFG write
fm_power_down_disabled_first(m) ==
    IF ~fm_is_powered_up(m.radio) THEN {Abort(m)}
    ELSE LET canceled == IF m.radio.async.task # NoTask
                         THEN fm_async_task_cancel(m) ELSE {m}
             rds_off(a) ==
                 IF fm_is_rds_supported(a.radio)
                 THEN fm_write_registers_up_to(
                          SetReg(a, SYSCONFIG1,
                                 fm_set_bit(a.radio.regs[SYSCONFIG1], RDS_BIT, FALSE)),
                          SYSCONFIG1)
                 ELSE {a}
             disable(a) ==
                 LET powercfg == fm_set_bit(fm_set_bit(fm_set_bit(a.radio.regs[POWERCFG],
                                     DMUTE_BIT, FALSE), DISABLE_BIT, TRUE), ENABLE_BIT, FALSE)
                 IN fm_write_registers_up_to(SetReg(a, POWERCFG, powercfg), POWERCFG)
         IN Then(Then(canceled, rds_off), disable)

fm_power_down(m) ==
    IF ~fm_is_powered_up(m.radio) THEN {Abort(m)}
    ELSE LET canceled == IF m.radio.async.task # NoTask
                         THEN fm_async_task_cancel(m) ELSE {m}
             rds_off(a) ==
                 IF fm_is_rds_supported(a.radio)
                 THEN fm_write_registers_up_to(
                          SetReg(a, SYSCONFIG1,
                                 fm_set_bit(a.radio.regs[SYSCONFIG1], RDS_BIT, FALSE)),
                          SYSCONFIG1)
                 ELSE {a}
             disable(a) ==
                 LET powercfg == fm_set_bit(fm_set_bit(a.radio.regs[POWERCFG],
                                     DMUTE_BIT, FALSE), DISABLE_BIT, TRUE)
                 IN { SetReg(b, POWERCFG,
                             fm_set_bit(b.radio.regs[POWERCFG], ENABLE_BIT, FALSE)) :
                      b \in fm_write_registers_up_to(SetReg(a, POWERCFG, powercfg), POWERCFG) }
         IN Then(Then(canceled, rds_off), disable)

(***************************************************************************)
(* The program: one handle, one chip, and a caller that makes one call of  *)
(* the public interface after the other.                                   *)
(*                                                                         *)
(*   radio    the handle between calls.  The clock is read only to compare *)
(*            it with async.resume_time, so between calls resume_time is   *)
(*            kept as the time still to wait (resume_time - time_us_64(),  *)
(*            not below 0): inside a call `now` starts at 0.               *)
(*   chip     the tuner                                                    *)
(*   last     the call that has just returned (or ended the program): its  *)
(*            name, arguments, how it ended, what it returned, how long it *)
(*            took; Idle once the caller has gone on                       *)
(*   bus      the pin and bus operations of that call, in order            *)
(*   faults   short bus transfers still to come                            *)
(*   setters  setter calls that reach the bus still to come                *)
(*                                                                         *)
(* A behaviour has transport faults or changes of the settings, not both:  *)
(* Budgets gives the two ways it can start.                                *)
(***************************************************************************)
VARIABLES radio, chip, last, bus, faults, setters

vars == <<radio, chip, last, bus, faults, setters>>

\* inputs of the calls
Configs == {fm_config_europe, fm_config_usa}
Frequencies == {95600}
Directions == {FM_SEEK_DOWN, FM_SEEK_UP}
Sensitivities == {FM_SEEK_SENSITIVITY_RECOMMENDED, FM_SEEK_SENSITIVITY_MOST}
SoftmuteRates == {0, 2}
SoftmuteAttenuations == {0, 3}
Volumes == {<<0, FALSE>>, <<9, TRUE>>, <<20, FALSE>>}
\* time the caller lets pass between two calls, in us (the example polls a
\* pending seek every 100 ms)
Delays == {100000}

Budgets ==
    { [faults |-> MaxFaults, setters |-> 0], [faults |-> 0, setters |-> MaxSetterCalls] }

NoProgress == [done |-> FALSE, result |-> 0]

Idle ==
    [op |-> "idle", arg |-> << >>, ctl |-> "run", ret |-> 0,
     progress |-> NoProgress, prog |-> << >>, elapsed |-> 0]

Enter ==
    [radio |-> radio, chip |-> chip, now |-> 0, bus |-> << >>, faults |-> faults,
     ctl |-> "run", ret |-> 0, progress |-> NoProgress, prog |-> << >>]

\* variant: a task whose resume time has passed is dropped from the slot
Later_with_timeout(r, d) ==
    IF r.async.task # NoTask /\ r.async.resume_time <= d
    THEN [r EXCEPT !.async = [task |-> NoTask, state |-> 0, resume_time |-> 0]]
    ELSE [r EXCEPT !.async.resume_time = IF @ > d THEN @ - d ELSE 0]

\* the handle `d` microseconds later
Later(r, d) ==
    [r EXCEPT !.async.resume_time = IF @ > d THEN @ - d ELSE 0]

Finish(op, arg, m) ==
    /\ radio' = Later(m.radio, m.now)
    /\ chip' = m.chip
    /\ bus' = m.bus
    /\ faults' = m.faults
    /\ last' = [op |-> op, arg |-> arg, ctl |-> m.ctl, ret |-> m.ret,
                progress |-> m.progress, prog |-> m.prog, elapsed |-> m.now]

Call(op, arg, outcomes) ==
    /\ last = Idle
    /\ \E m \in outcomes : Finish(op, arg, m)
    /\ UNCHANGED setters

\* a setter call; one that gets as far as the bus counts against MaxSetterCalls
SetterCall(op, arg, outcomes) ==
    /\ last = Idle
    /\ \E m \in outcomes :
          /\ m.bus # << >> => setters > 0
          /\ Finish(op, arg, m)
          /\ setters' = IF m.bus # << >> THEN setters - 1 ELSE setters

Init ==
    /\ radio = fm_init
    /\ chip \in {ChipReset(id) : id \in ChipIdWords}
    /\ last = Idle
    /\ bus = << >>
    /\ \E b \in Budgets : faults = b.faults /\ setters = b.setters

PowerUp ==
    \E c \in Configs :
        Call("fm_power_up", <<c.band, c.channel_spacing, c.deemphasis>>,
             fm_power_up(Enter, c))

PowerDown == Call("fm_power_down", << >>, fm_power_down(Enter))

SetFrequencyBlocking ==
    \E f \in Frequencies :
        Call("fm_set_frequency_blocking", <<f>>, fm_set_frequency_blocking(Enter, f))

SetFrequencyAsync ==
    \E f \in Frequencies :
        Call("fm_set_frequency_async", <<f>>, fm_set_frequency_async(Enter, f))

SeekBlocking ==
    \E d \in Directions : Call("fm_seek_blocking", <<d>>, fm_seek_blocking(Enter, d))

SeekAsync ==
    \E d \in Directions : Call("fm_seek_async", <<d>>, fm_seek_async(Enter, d))

AsyncTaskTick == Call("fm_async_task_tick", << >>, fm_async_task_tick(Enter))

AsyncTaskCancel == Call("fm_async_task_cancel", << >>, fm_async_task_cancel(Enter))

SetSeekSensitivity ==
    \E v \in Sensitivities :
        SetterCall("fm_set_seek_sensitivity", <<v>>, fm_set_seek_sensitivity(Enter, v))

SetMute ==
    \E v \in BOOLEAN : SetterCall("fm_set_mute", <<B2N(v)>>, fm_set_mute(Enter, v))

SetSoftmute ==
    \E v \in BOOLEAN : SetterCall("fm_set_softmute", <<B2N(v)>>, fm_set_softmute(Enter, v))

SetSoftmuteRate ==
    \E v \in SoftmuteRates :
        SetterCall("fm_set_softmute_rate", <<v>>, fm_set_softmute_rate(Enter, v))

SetSoftmuteAttenuation ==
    \E v \in SoftmuteAttenuations :
        SetterCall("fm_set_softmute_attenuation", <<v>>,
                   fm_set_softmute_attenuation(Enter, v))

SetMono ==
    \E v \in BOOLEAN : SetterCall("fm_set_mono", <<B2N(v)>>, fm_set_mono(Enter, v))

SetVolume ==
    \E v \in Volumes :
        SetterCall("fm_set_volume", <<v[1], B2N(v[2])>>, fm_set_volume(Enter, v[1], v[2]))

GetRssi == Call("fm_get_rssi", << >>, fm_get_rssi(Enter))

GetStereoIndicator == Call("fm_get_stereo_indicator", << >>, fm_get_stereo_indicator(Enter))

ReadRdsGroup == Call("fm_read_rds_group", << >>, fm_read_rds_group(Enter))

\* the caller lets time pass while a task is pending
Sleep ==
    /\ last = Idle
    /\ radio.async.resume_time > 0
    /\ \E d \in Delays : radio' = Later(radio, d)
    /\ UNCHANGED <<chip, last, bus, faults, setters>>

\* the caller has looked at the result of the call and goes on
Resume ==
    /\ last # Idle
    /\ last.ctl = "run"
    /\ last' = Idle
    /\ bus' = << >>
    /\ UNCHANGED <<radio, chip, faults, setters>>

Next ==
    \/ PowerUp
    \/ PowerDown
    \/ SetFrequencyBlocking
    \/ SetFrequencyAsync
    \/ SeekBlocking
    \/ SeekAsync
    \/ AsyncTaskTick
    \/ AsyncTaskCancel
    \/ SetSeekSensitivity
    \/ SetMute
    \/ SetSoftmute
    \/ SetSoftmuteRate
    \/ SetSoftmuteAttenuation
    \/ SetMono
    \/ SetVolume
    \/ GetRssi
    \/ GetStereoIndicator
    \/ ReadRdsGroup
    \/ Sleep
    \/ Resume

Spec == Init /\ [][Next]_vars


(***************************************************************************)
(* The volume handling of the example on its own: the device is powered    *)
(* up, then the caller sets the volume, through the example's set_volume   *)
(* or through fm_set_volume itself, and reads it back with get_volume.     *)
(***************************************************************************)
\* volumes the user asks the example for (0..30 are accepted)
MaxUserVolume == 31
\* levels handed to fm_set_volume itself (0..15 are levels of the chip)
MaxLevel == 17

ExampleSetVolume ==
    \E v \in 0..MaxUserVolume : Call("set_volume", <<v>>, set_volume(Enter, v))

\* get_volume right after set_volume; the record keeps the volume asked for
ExampleGetVolume ==
    /\ last.op = "set_volume"
    /\ last.ctl = "run"
    /\ last' = [last EXCEPT !.op = "get_volume", !.ret = get_volume(radio)]
    /\ bus' = << >>
    /\ UNCHANGED <<radio, chip, faults, setters>>

FmSetVolume ==
    \E level \in 0..MaxLevel : \E volext \in BOOLEAN :
        Call("fm_set_volume", <<level, B2N(volext)>>, fm_set_volume(Enter, level, volext))

VolumeNext ==
    \/ PowerUp
    \/ ExampleSetVolume
    \/ ExampleGetVolume
    \/ FmSetVolume
    \/ Resume

VolumeSpec == Init /\ [][VolumeNext]_vars


(***************************************************************************)
(* The frequency math on its own: for a band, a channel spacing and a      *)
(* frequency of the band in kHz, the channel fm_set_frequency_async would  *)
(* program and the frequency the task would store for that channel.        *)
(***************************************************************************)
Bands == {FM_BAND_COMMON, FM_BAND_JAPAN_WIDE, FM_BAND_JAPAN}
ChannelSpacings == {FM_CHANNEL_SPACING_200, FM_CHANNEL_SPACING_100, FM_CHANNEL_SPACING_50}

FrequencyToChannel ==
    /\ last = Idle
    /\ \E band \in Bands : \E channel_spacing \in ChannelSpacings :
          LET range == fm_frequency_range(band, channel_spacing)
          IN \E frequency \in range.bottom..range.top :
                last' = [Idle EXCEPT !.op = "fm_frequency_to_channel",
                                     !.arg = <<band, channel_spacing, frequency>>,
                                     !.ret = fm_frequency_to_channel(frequency, range)]
    /\ UNCHANGED <<radio, chip, bus, faults, setters>>

\* the channel just computed, converted back
ChannelToFrequency ==
    /\ last.op = "fm_frequency_to_channel"
    /\ last' = [last EXCEPT
                   !.op = "fm_channel_to_frequency",
                   !.ret = fm_channel_to_frequency(
                               last.ret, fm_frequency_range(last.arg[1], last.arg[2]))]
    /\ UNCHANGED <<radio, chip, bus, faults, setters>>

FrequencyInit == Init /\ faults = 0

FrequencyNext ==
    \/ FrequencyToChannel
    \/ ChannelToFrequency
    \/ Resume

FrequencySpec == FrequencyInit /\ [][FrequencyNext]_vars


(***************************************************************************)
(* Tuning over the whole band: the radio is powered up with any band and   *)
(* channel spacing, and fm_set_frequency_async is called with any          *)
(* frequency of the band (kHz).  No transfer is short.                     *)
(***************************************************************************)
BandPowerUp ==
    \E band \in Bands : \E channel_spacing \in ChannelSpacings :
       \E deemphasis \in {FM_DEEMPHASIS_75, FM_DEEMPHASIS_50} :
          Call("fm_power_up", <<band, channel_spacing, deemphasis>>,
               fm_power_up(Enter, [band |-> band, channel_spacing |-> channel_spacing,
                                   deemphasis |-> deemphasis]))

\* the caller tunes a powered-up radio whose slot is empty
BandSetFrequencyAsync ==
    /\ fm_is_powered_up(radio)
    /\ radio.async.task = NoTask
    /\ \E frequency \in
            fm_get_frequency_range(radio).bottom..fm_get_frequency_range(radio).top :
        Call("fm_set_frequency_async", <<frequency>>, fm_set_frequency_async(Enter, frequency))

BandNext ==
    \/ BandPowerUp
    \/ BandSetFrequencyAsync
    \/ Resume

BandSpec == FrequencyInit /\ [][BandNext]_vars


(***************************************************************************)
(* The register transfers on their own: after fm_init, and after a         *)
(* power-up that has filled the shadow and the chip, the two static        *)
(* helpers are called for any register index.                              *)
(***************************************************************************)
\* register indexes handed to the helpers (0..15 are registers)
MaxRegIndex == 16

ReadRegistersUpTo ==
    \E reg_index \in 0..MaxRegIndex :
        Call("fm_read_registers_up_to", <<reg_index>>,
             fm_read_registers_up_to(Enter, reg_index))

WriteRegistersUpTo ==
    \E reg_index \in 0..MaxRegIndex :
        Call("fm_write_registers_up_to", <<reg_index>>,
             fm_write_registers_up_to(Enter, reg_index))

RegisterNext ==
    \/ PowerUp
    \/ ReadRegistersUpTo
    \/ WriteRegistersUpTo
    \/ Resume

RegisterSpec == Init /\ [][RegisterNext]_vars


(***************************************************************************)
(* Settings with short transfers: power-up, power-down, the setters and    *)
(* the blocking tune, in behaviours where a setter that changes a value    *)
(* and a short transfer both occur.                                        *)
(***************************************************************************)
SettingsInit ==
    /\ radio = fm_init
    /\ chip \in {ChipReset(id) : id \in ChipIdWords}
    /\ last = Idle
    /\ bus = << >>
    /\ faults = MaxFaults
    /\ setters = MaxSetterCalls

SettingsNext ==
    \/ PowerUp
    \/ PowerDown
    \/ SetFrequencyBlocking
    \/ SetSeekSensitivity
    \/ SetMute
    \/ SetSoftmute
    \/ SetSoftmuteRate
    \/ SetSoftmuteAttenuation
    \/ SetMono
    \/ SetVolume
    \/ Resume

SettingsSpec == SettingsInit /\ [][SettingsNext]_vars

(***************************************************************************)
(* The loops of the engine step by step.  In Spec a call is one step and   *)
(* its loops are cut off by MaxSpin and MaxPolls; here every iteration of  *)
(* the poll loop of a blocking call (sleep, tick) and of the wait for STC  *)
(* clear (one status read) is a step of its own, no loop is cut off, and   *)
(* the chip sets and clears STC in steps of its own.  last.ctl is the      *)
(* place the running call is at: "poll" in the do-while of a blocking      *)
(* call, "wait" in the do-while of the stop sequence, "readchan" before    *)
(* the final read, "run" once it has returned.  bus is the log of the last *)
(* step.  No transfer is short.                                            *)
(***************************************************************************)
\* variant: the wait for STC clear never ends
WaitExit_never(m) == FALSE

\* } while (fm_get_bit(regs[STATUSRSSI], STC)); is left
WaitExit(m) == ~fm_get_bit(m.radio.regs[STATUSRSSI], STC_BIT)

\* a read burst up to reg_index of a chip whose STC changes in steps of its
\* own only (ChipMoves)
LiveRead(m, reg_index) ==
    { a \in fm_read_registers_up_to(m, reg_index) : a.chip.stc = m.chip.stc }

\* the machine a step of the running call starts from
LiveEnter == [Enter EXCEPT !.progress = last.progress]

\* the task routine with cancel = false up to its stop write: the status
\* read; on STC clear the routine returns done=false (ctl "poll"), else it
\* clears the start bit and writes it through (ctl "wait")
LiveStatus(m) ==
    LET tune == m.radio.async.task = TuneTask
        interval == IF tune THEN TUNE_POLL_INTERVAL_MS ELSE SEEK_POLL_INTERVAL_MS
        reg == IF tune THEN CHANNEL ELSE POWERCFG
        bit == IF tune THEN TUNE_BIT ELSE SEEK_BIT
        refreshed(a) ==
            IF tune THEN a.radio.frequency
            ELSE fm_channel_to_frequency(
                     fm_get_bits(a.radio.regs[READCHAN], READCHAN_BITS, READCHAN_LSB),
                     fm_get_frequency_range(a.radio))
        result(a) == IF ~tune /\ fm_get_bit(a.radio.regs[STATUSRSSI], SFBL_BIT)
                     THEN -1 ELSE 0
    IN UNION { IF ~fm_get_bit(a.radio.regs[STATUSRSSI], STC_BIT)
               THEN { [a EXCEPT !.radio.frequency = refreshed(a),
                                !.radio.async.resume_time = time_us_64(a) + interval * 1000,
                                !.progress = [done |-> FALSE, result |-> 0],
                                !.ctl = "poll"] }
               ELSE { [b EXCEPT !.progress = [done |-> FALSE, result |-> result(a)],
                                !.ctl = "wait"] :
                      b \in fm_write_registers_up_to(
                                SetReg(a, reg, fm_set_bit(a.radio.regs[reg], bit, FALSE)), reg) } :
             a \in LiveRead(m, IF tune THEN STATUSRSSI ELSE READCHAN) }

\* the task routine with cancel = true up to its stop write
LiveStop(m) ==
    LET tune == m.radio.async.task = TuneTask
        reg == IF tune THEN CHANNEL ELSE POWERCFG
        bit == IF tune THEN TUNE_BIT ELSE SEEK_BIT
    IN { [b EXCEPT !.progress = [done |-> FALSE, result |-> -1], !.ctl = "wait"] :
         b \in fm_write_registers_up_to(
                   SetReg(m, reg, fm_set_bit(m.radio.regs[reg], bit, FALSE)), reg) }

\* fm_set_frequency_blocking up to its do-while
LiveStartTune(m, frequency) ==
    IF ~fm_is_powered_up(m.radio) THEN {Abort(m)}
    ELSE IF m.radio.async.task # NoTask THEN {Abort(m)}
    ELSE IF m.radio.frequency = frequency THEN {m}
    ELSE { IF a.ctl = "run" THEN [a EXCEPT !.ctl = "poll"] ELSE a :
           a \in fm_set_frequency_async(m, frequency) }

\* fm_seek_blocking up to its do-while
LiveStartSeek(m, direction) ==
    IF m.radio.async.task # NoTask THEN {Abort(m)}
    ELSE { IF a.ctl = "run" THEN [a EXCEPT !.ctl = "poll"] ELSE a :
           a \in fm_seek_async(m, direction) }

LiveSetFrequencyBlocking ==
    \E f \in Frequencies :
        Call("fm_set_frequency_blocking", <<f>>, LiveStartTune(Enter, f))

LiveSeekBlocking ==
    \E d \in Directions : Call("fm_seek_blocking", <<d>>, LiveStartSeek(Enter, d))

\* fm_async_task_tick up to the stop write of the task routine
LiveTick ==
    Call("fm_async_task_tick", << >>,
         IF radio.async.task = NoTask THEN {Abort(Enter)}
         ELSE IF time_us_64(Enter) < radio.async.resume_time
         THEN { [Enter EXCEPT !.progress = [done |-> FALSE, result |-> 0]] }
         ELSE { IF a.ctl = "poll" THEN [a EXCEPT !.ctl = "run"] ELSE a :
                a \in LiveStatus(Enter) })

\* fm_async_task_cancel up to the stop write of the task routine
LiveCancel ==
    Call("fm_async_task_cancel", << >>,
         IF radio.async.task = NoTask THEN {Abort(Enter)} ELSE LiveStop(Enter))

\* one turn of the do-while of a blocking call: sleep_ms, fm_async_task_tick
LivePoll ==
    /\ last.ctl = "poll"
    /\ \E a \in LiveStatus(sleep_ms(LiveEnter,
                    IF radio.async.task = TuneTask THEN TUNE_POLL_INTERVAL_MS
                    ELSE SEEK_POLL_INTERVAL_MS)) :
          Finish(last.op, last.arg, a)
    /\ UNCHANGED setters

\* one turn of the do-while of the stop sequence: one status read
LiveWait ==
    /\ last.ctl = "wait"
    /\ \E a \in LiveRead(LiveEnter, STATUSRSSI) :
          Finish(last.op, last.arg,
                 [a EXCEPT !.ctl = IF WaitExit(a) THEN "readchan" ELSE "wait"])
    /\ UNCHANGED setters

\* the end of the task routine and of the call: the READCHAN read, the
\* frequency, done=true; the slot is emptied and the call returns
LiveReadChannel ==
    /\ last.ctl = "readchan"
    /\ \E a \in LiveRead(LiveEnter, READCHAN) :
          Finish(last.op, last.arg,
                 [a EXCEPT !.radio.frequency =
                               fm_channel_to_frequency(
                                   fm_get_bits(a.radio.regs[READCHAN],
                                               READCHAN_BITS, READCHAN_LSB),
                                   fm_get_frequency_range(a.radio)),
                           !.radio.async = NoAsync,
                           !.progress = [done |-> TRUE, result |-> last.progress.result],
                           !.ret = IF last.op = "fm_seek_blocking"
                                   THEN B2N(last.progress.result = 0) ELSE 0,
                           !.ctl = "run"])
    /\ UNCHANGED setters

\* the chip sets STC (a tune or seek under way completes) or clears it (the
\* start bit was cleared)
ChipMoves ==
    /\ \E c \in ChipStep(chip) : c.stc # chip.stc /\ chip' = c
    /\ UNCHANGED <<radio, last, bus, faults, setters>>

LiveInit == Init /\ faults = 0

\* the steps of a call that has not returned yet
LiveStep == LivePoll \/ LiveWait \/ LiveReadChannel

LiveNext ==
    \/ PowerUp
    \/ SetFrequencyAsync
    \/ SeekAsync
    \/ LiveSetFrequencyBlocking
    \/ LiveSeekBlocking
    \/ LiveTick
    \/ LiveCancel
    \/ LivePoll
    \/ LiveWait
    \/ LiveReadChannel
    \/ ChipMoves
    \/ Sleep
    \/ Resume

\* the program goes on running a call it is in, and the chip goes on with
\* what it was told to do
LiveSpec ==
    LiveInit /\ [][LiveNext]_vars /\ WF_vars(LiveStep) /\ WF_vars(ChipMoves)


(***************************************************************************)
(* Properties.  A call is one step from a state with last = Idle: the      *)
(* unprimed variables are the state at its entry, the primed ones the      *)
(* state at its return (or where the program ended).                       *)
(***************************************************************************)
StartOps ==
    {"fm_set_frequency_async", "fm_seek_async",
     "fm_set_frequency_blocking", "fm_seek_blocking"}

SetterOps ==
    {"fm_set_mute", "fm_set_softmute", "fm_set_softmute_rate",
     "fm_set_softmute_attenuation", "fm_set_mono", "fm_set_volume",
     "fm_set_seek_sensitivity"}

QueryOps == {"fm_get_rssi", "fm_get_stereo_indicator", "fm_read_rds_group"}

\* the word a write burst w carries for register r (r within the burst)
Sent(w, r) == w.data[2 * (r - 1) - 1] * 256 + w.data[2 * (r - 1)]

\* the call ended in a failed assert before it did anything
Rejected ==
    /\ last'.ctl = "assert"
    /\ bus' = << >>
    /\ radio' = radio
    /\ chip' = chip
    /\ faults' = faults
    /\ setters' = setters

\* C1: a tune or seek start (async or blocking) made while the slot holds a
\* task ends in a failed assert with no pin or bus operation; registers, slot,
\* cached frequency (the whole handle) and the chip are as before.
C1_StartWhilePendingRejected ==
    [][(last = Idle /\ last'.op \in StartOps /\ radio.async.task # NoTask)
         => Rejected]_vars

C1_Witness ==
    /\ last.op = "fm_seek_blocking"
    /\ last.ctl = "assert"
    /\ radio.async.task = TuneTask
    /\ bus = << >>

\* C2: fm_async_task_tick on a pending task, entered before the resume time,
\* returns done = false, does nothing on the bus and leaves handle and chip as
\* they were.
C2_GatedTick ==
    [][(last = Idle /\ last'.op = "fm_async_task_tick"
            /\ radio.async.task # NoTask /\ 0 < radio.async.resume_time)
         => /\ last'.ctl = "run"
            /\ ~last'.progress.done
            /\ bus' = << >>
            /\ radio' = radio
            /\ chip' = chip]_vars

C2_Witness ==
    /\ last.op = "fm_async_task_tick"
    /\ last.ctl = "run"
    /\ bus = << >>
    /\ radio.async.task = SeekTask
    /\ 0 < radio.async.resume_time

\* C3: when fm_async_task_cancel has returned, the slot is empty and neither
\* fm_set_frequency_async nor fm_seek_async, called next, fails an assert.
C3_CancelThenStart ==
    (last.op = "fm_async_task_cancel" /\ last.ctl = "run")
      => /\ radio.async = NoAsync
         /\ \A f \in Frequencies :
               \A m \in fm_set_frequency_async(Enter, f) :
                  m.ctl = "run" /\ m.radio.async.task = TuneTask
         /\ \A d \in Directions :
               \A m \in fm_seek_async(Enter, d) :
                  m.ctl = "run" /\ m.radio.async.task = SeekTask

C3_Witness ==
    /\ last.op = "fm_async_task_cancel"
    /\ last.ctl = "run"
    /\ Len(bus) >= 3
    /\ radio.async = NoAsync

\* C4: the slot is always empty (NULL, 0, 0) or holds the tune or the seek task
\* with state 1; tick and cancel fail an assert exactly when the slot is
\* empty, power_down exactly when the device is down, and no call fails an
\* assert after it has touched the bus, so the asserts of the task routines
\* hold (the one late assert is fm_is_powered_up in the retune of a cold
\* power_up whose enable write came back short).
C4_SlotInvariant ==
    /\ [](\/ radio.async = NoAsync
          \/ (radio.async.task \in {TuneTask, SeekTask} /\ radio.async.state = 1))
    /\ [][last = Idle =>
            /\ last'.op \in {"fm_async_task_tick", "fm_async_task_cancel"}
                 => (last'.ctl = "assert" <=> radio.async.task = NoTask)
            /\ last'.op = "fm_power_down"
                 => (last'.ctl = "assert" <=> ~fm_is_powered_up(radio))
            /\ last'.ctl = "assert"
                 => \/ bus' = << >>
                    \/ last'.op = "fm_power_up" /\ ~fm_is_powered_up(radio')]_vars

C4_Witness ==
    /\ last.op = "fm_async_task_tick"
    /\ last.ctl = "run"
    /\ bus # << >>
    /\ ~last.progress.done
    /\ radio.async.task = TuneTask
    /\ radio.async.state = 1

\* C5 as stated: between the calls that return, the cached frequency changes
\* only in a step in which a task routine reports done.
C5_Original ==
    [][(last'.ctl = "run" /\ radio'.frequency # radio.frequency)
         => \E i \in 1..Len(last'.prog) : last'.prog[i].done]_vars

\* C5: between the calls that return, the cached frequency changes only in a
\* step in which a task routine reports done, or in an eligible tick of a pending seek that reports not done
\* (the seek task stores the channel it has just read).  A gated tick, a task
\* start, a setter, a query and a fast-path power_up never change it.
C5_FrequencyWriters ==
    [][(last'.ctl = "run" /\ radio'.frequency # radio.frequency)
         => \/ \E i \in 1..Len(last'.prog) : last'.prog[i].done
            \/ /\ last'.op = "fm_async_task_tick"
               /\ radio.async.task = SeekTask
               /\ radio.async.resume_time = 0
               /\ ~last'.progress.done
               /\ bus' # << >>]_vars

C5_Witness ==
    /\ last.op = "fm_async_task_tick"
    /\ ~last.progress.done
    /\ radio.async.task = SeekTask
    /\ bus # << >>
    /\ radio.frequency = fm_channel_to_frequency(chip.chan, fm_get_frequency_range(radio))
    /\ radio.frequency # 0

\* C6 as stated: a cancel that returns has issued exactly one bus transaction.
C6_Original ==
    [][(last = Idle /\ last'.op = "fm_async_task_cancel" /\ last'.ctl = "run")
         => Len(bus') = 1]_vars

\* C6: a cancel that returns has done all of its work inside the call: one
\* write burst first (through CHANNEL for a tune, POWERCFG alone for a seek),
\* then one or more 1-register status reads and last the 2-register READCHAN
\* read, at least three transactions; on return the slot is empty and both
\* start bits are clear in the shadow.
C6_CancelSynchronous ==
    [][(last = Idle /\ last'.op = "fm_async_task_cancel" /\ last'.ctl = "run")
         => /\ Len(bus') >= 3
            /\ bus'[1].op = "write"
            /\ bus'[1].len = (IF radio.async.task = TuneTask THEN 4 ELSE 2)
            /\ \A i \in 2..Len(bus') : bus'[i].op = "read"
            /\ \A i \in 2..(Len(bus') - 1) : bus'[i].len = 2
            /\ bus'[Len(bus')].len = 4
            /\ radio'.async = NoAsync
            /\ ~fm_get_bit(radio'.regs[CHANNEL], TUNE_BIT)
            /\ ~fm_get_bit(radio'.regs[POWERCFG], SEEK_BIT)]_vars

C6_Witness ==
    /\ last.op = "fm_async_task_cancel"
    /\ last.ctl = "run"
    /\ Len(bus) = 4
    /\ bus[1].op = "write"
    /\ bus[4].op = "read"

C8_LifecyclePreconditions ==
    [][(/\ last = Idle
        /\ \/ last'.op = "fm_power_up" /\ fm_is_powered_up(radio)
           \/ last'.op = "fm_power_down" /\ ~fm_is_powered_up(radio)
           \/ /\ last'.op \in StartOps \cup SetterOps \cup QueryOps
              /\ ~fm_is_powered_up(radio))
         => Rejected]_vars

C8_Witness ==
    /\ last.op = "fm_get_rssi"
    /\ last.ctl = "assert"
    /\ fm_get_bit(radio.regs[POWERCFG], DISABLE_BIT)
    /\ ~fm_is_powered_up(radio)

\* C9: a setter called while a task is in the slot ends in a failed assert,
\* whatever value it asks for, with no bus operation and the handle unchanged.
C9_SettersRejectedWhilePending ==
    [][(last = Idle /\ last'.op \in SetterOps /\ radio.async.task # NoTask)
         => Rejected]_vars

C9_Witness ==
    /\ last.op = "fm_set_mute"
    /\ last.arg = <<B2N(radio.mute)>>
    /\ last.ctl = "assert"
    /\ radio.async.task # NoTask
    /\ fm_is_powered_up(radio)

\* C10 as stated: on the fast path every bus operation is a write burst of
\* exactly one register.
C10_Original ==
    [][(/\ last = Idle
        /\ last'.op = "fm_power_up"
        /\ ~fm_is_powered_up(radio)
        /\ fm_get_bit(radio.regs[POWERCFG], DISABLE_BIT)
        /\ last'.arg = <<radio.config.band, radio.config.channel_spacing,
                         radio.config.deemphasis>>)
         => \A i \in 1..Len(bus') : bus'[i].op = "write" /\ bus'[i].len = 2]_vars

\* C10: the fast path does no read and no pin reset.  Its first write burst
\* carries POWERCFG alone; on a device without RDS that is all, on an
\* RDS-capable device a second burst of three registers (POWERCFG, CHANNEL,
\* SYSCONFIG1) follows the 110 ms wait and carries the RDS enable bit.
C10_FastPathWrites ==
    [][(/\ last = Idle
        /\ last'.op = "fm_power_up"
        /\ ~fm_is_powered_up(radio)
        /\ fm_get_bit(radio.regs[POWERCFG], DISABLE_BIT)
        /\ last'.arg = <<radio.config.band, radio.config.channel_spacing,
                         radio.config.deemphasis>>)
         => /\ last'.ctl = "run"
            /\ last'.elapsed = 110000
            /\ \A i \in 1..Len(bus') : bus'[i].op = "write"
            /\ bus'[1].len = 2
            /\ fm_get_bit(Sent(bus'[1], POWERCFG), ENABLE_BIT)
            /\ IF fm_is_rds_supported(radio)
               THEN /\ Len(bus') = 2
                    /\ bus'[2].len = 6
                    /\ fm_get_bit(Sent(bus'[2], SYSCONFIG1), RDS_BIT)
               ELSE Len(bus') = 1]_vars

C10_Witness ==
    /\ last.op = "fm_power_up"
    /\ last.ctl = "run"
    /\ fm_is_rds_supported(radio)
    /\ Len(bus) = 2
    /\ bus[1].len = 2
    /\ bus[2].len = 6

\* the settings the handle caches, without the frequency
CachedSettings(r) ==
    <<r.mute, r.softmute, r.softmute_rate, r.softmute_attenuation, r.mono,
      r.volume, r.volext, r.seek_sensitivity, r.config>>

\* the bus transactions (reads and writes) in a log of pin and bus operations
Transfers(log) == Cardinality({i \in 1..Len(log) : log[i].op # "reset"})

\* C11 as stated: after any fm_power_down that returns, fm_power_up with the
\* stored config leaves every cached setting, the frequency included, as it
\* was before the power-down.
C11_Original ==
    [][(last = Idle /\ last'.op = "fm_power_down" /\ last'.ctl = "run")
         => \A m \in fm_power_up(Enter', radio.config) :
               /\ CachedSettings(m.radio) = CachedSettings(radio)
               /\ m.radio.frequency = radio.frequency]_vars

\* C11: after any fm_power_down that returns, fm_power_up with the stored
\* config takes the fast path: it returns powered up after one or two write
\* bursts and nothing else, fewer transactions than any cold power_up that
\* returns from the same state; the POWERCFG it writes has ENABLE set, DISABLE
\* clear and DMUTE = ~mute; every cached setting is as before the power-down,
\* and so is the frequency when the slot was empty at the power-down (with a
\* task pending it is the frequency the cancel inside fm_power_down stored).
C11_PowerCycleFastPath ==
    [][(last = Idle /\ last'.op = "fm_power_down" /\ last'.ctl = "run")
         => /\ \A c \in PowerUpCold(Enter', radio.config) :
                  c.ctl = "run"
                     => \A m \in fm_power_up(Enter', radio.config) :
                           Transfers(m.bus) < Transfers(c.bus)
            /\ \A m \in fm_power_up(Enter', radio.config) :
               /\ m.ctl = "run"
               /\ fm_is_powered_up(m.radio)
               /\ Len(m.bus) \in {1, 2}
               /\ \A i \in 1..Len(m.bus) : m.bus[i].op = "write"
               /\ fm_get_bit(Sent(m.bus[1], POWERCFG), ENABLE_BIT)
               /\ ~fm_get_bit(Sent(m.bus[1], POWERCFG), DISABLE_BIT)
               /\ fm_get_bit(Sent(m.bus[1], POWERCFG), DMUTE_BIT) = ~radio.mute
               /\ CachedSettings(m.radio) = CachedSettings(radio)
               /\ m.radio.frequency = radio'.frequency
               /\ radio.async.task = NoTask => m.radio.frequency = radio.frequency]_vars

C11_Witness ==
    /\ last.op = "fm_power_up"
    /\ last.ctl = "run"
    /\ Len(bus) = 1
    /\ bus[1].op = "write"
    /\ ~radio.mute
    /\ fm_get_bit(Sent(bus[1], POWERCFG), DMUTE_BIT)
    /\ radio.frequency # 0

\* C12: an fm_power_down that returns ends its bus log with the write burst
\* of POWERCFG alone, sent with DMUTE clear, DISABLE set and ENABLE still
\* set; on an RDS-capable device the operation before it is the write burst
\* up to SYSCONFIG1 with the RDS bit clear, on a device without RDS there is
\* no such burst.  With the slot empty at entry these writes are the whole
\* log (no read at all); with a task pending only the operations of its
\* cancel precede them.  On return the shadow has ENABLE clear and DISABLE
\* set, so fm_is_powered_up is false.
C12_PowerDownWrites ==
    [][(last = Idle /\ last'.op = "fm_power_down" /\ last'.ctl = "run")
         => LET n == Len(bus')
                k == IF fm_is_rds_supported(radio) THEN 2 ELSE 1
            IN /\ n >= k
               /\ bus'[n].op = "write"
               /\ bus'[n].len = 2
               /\ ~fm_get_bit(Sent(bus'[n], POWERCFG), DMUTE_BIT)
               /\ fm_get_bit(Sent(bus'[n], POWERCFG), DISABLE_BIT)
               /\ fm_get_bit(Sent(bus'[n], POWERCFG), ENABLE_BIT)
               /\ k = 2 => /\ bus'[n - 1].op = "write"
                           /\ bus'[n - 1].len = 6
                           /\ ~fm_get_bit(Sent(bus'[n - 1], SYSCONFIG1), RDS_BIT)
                           /\ ~fm_get_bit(Sent(bus'[n - 1], POWERCFG), DISABLE_BIT)
               /\ radio.async.task = NoTask => n = k
               /\ radio.async.task # NoTask => n >= k + 3
               /\ ~fm_is_powered_up(radio')
               /\ ~fm_get_bit(radio'.regs[POWERCFG], ENABLE_BIT)
               /\ fm_get_bit(radio'.regs[POWERCFG], DISABLE_BIT)
               /\ ~fm_get_bit(radio'.regs[SYSCONFIG1], RDS_BIT)]_vars

C12_Witness ==
    /\ last.op = "fm_power_down"
    /\ last.ctl = "run"
    /\ Len(bus) = 2
    /\ bus[1].op = "write" /\ bus[1].len = 6
    /\ bus[2].op = "write" /\ bus[2].len = 2
    /\ fm_get_bit(Sent(bus[2], POWERCFG), ENABLE_BIT)
    /\ ~fm_is_powered_up(radio)

\* C13: in every reachable state a non-empty slot implies the device is
\* powered up; and an fm_power_down that is entered with a task in the slot
\* and returns has first run that task's cancel to its end (its bus log
\* begins with the whole log of a cancel from the entry state: the write
\* that carries the start bit cleared, then reads only), has sent the
\* power-down writes after it, and returns with the slot empty.
C13_NoPowerDownWithTask ==
    /\ [](radio.async.task # NoTask => fm_is_powered_up(radio))
    /\ [][(last = Idle /\ last'.op = "fm_power_down" /\ last'.ctl = "run"
              /\ radio.async.task # NoTask)
           => LET n == Len(bus')
                  k == IF fm_is_rds_supported(radio) THEN 2 ELSE 1
              IN /\ radio'.async.task = NoTask
                 /\ radio'.async.state = 0
                 /\ Len(last'.prog) = 1 /\ last'.prog[1].done
                 /\ n > k
                 /\ \E c \in fm_async_task_cancel(Enter) :
                       /\ c.ctl = "run"
                       /\ c.bus = SubSeq(bus', 1, n - k)
                       /\ c.radio.async.task = NoTask
                       /\ c.radio.frequency = radio'.frequency
                 /\ bus'[1].op = "write"
                 /\ IF radio.async.task = TuneTask
                    THEN ~fm_get_bit(Sent(bus'[1], CHANNEL), TUNE_BIT)
                    ELSE ~fm_get_bit(Sent(bus'[1], POWERCFG), SEEK_BIT)
                 /\ \A i \in 2..(n - k) : bus'[i].op = "read"
                 /\ \A i \in (n - k + 1)..n : bus'[i].op = "write"]_vars

C13_Witness ==
    /\ last.op = "fm_power_down"
    /\ last.ctl = "run"
    /\ Len(bus) >= 4
    /\ bus[1].op = "write"
    /\ bus[2].op = "read"
    /\ radio.async.task = NoTask
    /\ ~fm_is_powered_up(radio)

\* C14 as stated: a cold-path fm_power_up in which one of its five
\* initialization transfers (two full reads, three write bursts) was short
\* ends the program; it never returns with the device marked powered up.
C14_InitTransferFailureFatal ==
    [][(last = Idle /\ last'.op = "fm_power_up"
            /\ ~fm_is_powered_up(radio)
            /\ ~(fm_get_bit(radio.regs[POWERCFG], DISABLE_BIT)
                   /\ <<radio.config.band, radio.config.channel_spacing,
                        radio.config.deemphasis>> = last'.arg)
            /\ \E i \in 1..Len(bus') :
                  /\ bus'[i].op # "reset"
                  /\ ~bus'[i].ok
                  /\ Transfers(SubSeq(bus', 1, i)) <= 5)
         => /\ last'.ctl # "run"
            /\ ~fm_is_powered_up(radio')]_vars

\* C15: on a powered-up idle device, whatever volume and volext it holds,
\* get_volume right after an accepted set_volume(v), v in 0..30, returns v;
\* set_volume stores level v with volext on for v < 16 and level v - 15 with
\* volext off otherwise; and fm_set_volume stores min(level, 15), in the
\* handle and in the VOLUME field of the shadow, for every level handed to it.
C15_VolumeRoundTrip ==
    /\ [](last.op = "get_volume" => last.arg[1] \in 0..30 /\ last.ret = last.arg[1])
    /\ [][(last = Idle /\ last'.op = "set_volume" /\ last'.ctl = "run")
            => /\ last'.arg[1] \in 0..30
               /\ get_volume(radio') = last'.arg[1]
               /\ radio'.volume = (IF last'.arg[1] < 16 THEN last'.arg[1]
                                   ELSE last'.arg[1] - 15)
               /\ radio'.volext = (last'.arg[1] < 16)]_vars
    /\ [][(last = Idle /\ last'.op = "fm_set_volume" /\ last'.ctl = "run")
            => /\ radio'.volume = (IF last'.arg[1] > 15 THEN 15 ELSE last'.arg[1])
               /\ radio'.volext = (last'.arg[2] = 1)
               /\ radio'.volume <= FM_MAX_VOLUME
               /\ fm_get_bits(radio'.regs[SYSCONFIG2], VOLUME_BITS, VOLUME_LSB)
                     = radio'.volume
               /\ fm_get_bit(radio'.regs[SYSCONFIG3], VOLEXT_BIT) = radio'.volext]_vars

C15_Witness ==
    /\ last.op = "get_volume"
    /\ last.arg = <<15>>
    /\ last.ret = 15
    /\ radio.volume = 15
    /\ radio.volext
    /\ faults = 0 /\ setters = 0

\* C16: for each band, each channel spacing and every frequency f of the
\* band (kHz), fm_frequency_to_channel gives the integer nearest to
\* (f - bottom) / spacing, a half rounded up, and fm_channel_to_frequency of
\* that channel is channel * spacing + bottom and differs from f by at most
\* half the spacing.
C16_FrequencyRoundTrip ==
    LET range == fm_frequency_range(last.arg[1], last.arg[2])
        f == last.arg[3]
    IN /\ last.op = "fm_frequency_to_channel"
            => /\ range.bottom <= f /\ f <= range.top
               /\ 2 * (f - range.bottom) - range.spacing < 2 * last.ret * range.spacing
               /\ 2 * last.ret * range.spacing <= 2 * (f - range.bottom) + range.spacing
       /\ last.op = "fm_channel_to_frequency"
            => /\ 2 * (last.ret - f) <= range.spacing
               /\ 2 * (f - last.ret) <= range.spacing
               /\ (last.ret - range.bottom) % range.spacing = 0
               /\ range.bottom <= last.ret

C16_Witness ==
    /\ last.op = "fm_channel_to_frequency"
    /\ last.arg = <<FM_BAND_COMMON, FM_CHANNEL_SPACING_50, 95625>>
    /\ last.ret = 95650

\* the POWERCFG word w starts a seek in wrap mode in direction d
WrapSeekWord(w, d) ==
    /\ ~fm_get_bit(w, SKMODE_BIT)
    /\ fm_get_bit(w, SEEK_BIT)
    /\ fm_get_bit(w, SEEKUP_BIT) = (d = FM_SEEK_UP)
    /\ fm_get_bit(w, ENABLE_BIT)

\* C17: the first bus operation of every accepted fm_seek_async and
\* fm_seek_blocking is the write of POWERCFG alone with SKMODE clear, SEEK
\* set and SEEKUP = (direction = up), and after a full write of
\* fm_seek_async this is the word the chip holds.  The same is true of
\* fm_seek_async from any idle powered-up state with the SKMODE and SEEKUP
\* bits of the shadow set or cleared at will and with the cached frequency at
\* the top or the bottom of the band: the seek is accepted and started in
\* wrap mode there as everywhere else.
C17_SeekStartsInWrapMode ==
    /\ [][(last = Idle /\ last'.op \in {"fm_seek_async", "fm_seek_blocking"}
              /\ last'.ctl = "run")
           => /\ bus'[1].op = "write"
              /\ bus'[1].len = 2
              /\ WrapSeekWord(Sent(bus'[1], POWERCFG), last'.arg[1])
              /\ (last'.op = "fm_seek_async" /\ bus'[1].ok)
                    => chip'.bank[POWERCFG] = Sent(bus'[1], POWERCFG)
              /\ (last'.op = "fm_seek_async")
                    => /\ Len(bus') = 1
                       /\ WrapSeekWord(radio'.regs[POWERCFG], last'.arg[1])
                       /\ radio'.async.task = SeekTask]_vars
    /\ []((last = Idle /\ fm_is_powered_up(radio) /\ radio.async.task = NoTask)
           => \A d \in Directions : \A skmode \in BOOLEAN : \A seekup \in BOOLEAN :
              \A f \in {radio.frequency, fm_get_frequency_range(radio).top,
                        fm_get_frequency_range(radio).bottom} :
                 LET w == fm_set_bit(fm_set_bit(radio.regs[POWERCFG],
                                         SKMODE_BIT, skmode), SEEKUP_BIT, seekup)
                     e == [Enter EXCEPT !.radio.regs[POWERCFG] = w,
                                        !.radio.frequency = f]
                 IN \A m \in fm_seek_async(e, d) :
                       /\ m.ctl = "run"
                       /\ Len(m.bus) = 1
                       /\ m.bus[1].op = "write"
                       /\ WrapSeekWord(Sent(m.bus[1], POWERCFG), d)
                       /\ m.radio.async.task = SeekTask)

C17_Witness ==
    /\ last.op = "fm_seek_async"
    /\ last.ctl = "run"
    /\ last.arg = <<FM_SEEK_DOWN>>
    /\ radio.async.task = SeekTask
    /\ Len(bus) = 1
    /\ bus[1].ok
    /\ ~fm_get_bit(chip.bank[POWERCFG], SKMODE_BIT)
    /\ ~fm_get_bit(chip.bank[POWERCFG], SEEKUP_BIT)
    /\ fm_get_bit(chip.bank[POWERCFG], SEEK_BIT)
    /\ radio.frequency # 0

\* the word of register r in the bytes the read burst rd received
Received(rd, r) ==
    LET k == ((r + 16 - STATUSRSSI) % 16) + 1
    IN rd.data[2 * k - 1] * 256 + rd.data[2 * k]

\* index of the last write in a bus log that has one
LastWrite(log) ==
    CHOOSE j \in 1..Len(log) :
        /\ log[j].op = "write"
        /\ \A i \in (j + 1)..Len(log) : log[i].op # "write"

\* the cached frequency is the one of the channel in the shadow's READCHAN,
\* which the last operation of the log, a read up to READCHAN, has filled in
\* if it was a full transfer
FrequencyFromFinalRead(r, log) ==
    LET rd == log[Len(log)]
    IN /\ rd.op = "read"
       /\ rd.len = 4
       /\ rd.ok => r.regs[READCHAN] = Received(rd, READCHAN)
       /\ r.frequency = fm_channel_to_frequency(
                            fm_get_bits(r.regs[READCHAN], READCHAN_BITS, READCHAN_LSB),
                            fm_get_frequency_range(r))

\* the STATUSRSSI word the shadow of handle r holds after the operations of
\* log before index j: the word of the last full read among them, or the
\* word r held at entry if none of them was a full read
StatusBefore(r, log, j) ==
    LET full == {i \in 1..(j - 1) : log[i].op = "read" /\ log[i].ok}
    IN IF full = {} THEN r.regs[STATUSRSSI]
       ELSE Received(log[CHOOSE i \in full : \A k \in full : k <= i], STATUSRSSI)

PolledToDone(interval_ms) ==
    LET n == Len(last'.prog)
    IN /\ n >= 1
       /\ last'.elapsed = n * interval_ms * 1000
       /\ \A i \in 1..(n - 1) : ~last'.prog[i].done
       /\ last'.prog[n].done
       /\ last'.progress = last'.prog[n]
       /\ bus'[1].op = "write"
       /\ \A i \in 2..(n + 1) : bus'[i].op = "read"
       /\ LastWrite(bus') = n + 2
       /\ radio'.async = [task |-> NoTask, state |-> 0, resume_time |-> 0]

\* C19 as stated: every accepted fm_set_frequency_blocking and
\* fm_seek_blocking starts its task with a write and polls it to done, also
\* for a frequency equal to the cached one.
C19_Original ==
    [][(last = Idle /\ last'.ctl = "run"
            /\ last'.op \in {"fm_set_frequency_blocking", "fm_seek_blocking"})
         => /\ Len(bus') >= 1
            /\ bus'[1].op = "write"
            /\ Len(last'.prog) >= 1
            /\ radio'.async.task = NoTask]_vars

\* C19: every accepted fm_seek_blocking, and every accepted
\* fm_set_frequency_blocking for a frequency other than the cached one,
\* starts its task with one start write (SEEK, TUNE set), polls it at its
\* interval (200 ms, 20 ms) until a tick reports done and returns with the
\* slot empty; fm_set_frequency_blocking for the cached frequency returns at
\* once: no bus operation, no task, no tick, handle and chip as they were.
C19_BlockingThroughEngine ==
    /\ [][(last = Idle /\ last'.ctl = "run" /\ last'.op = "fm_seek_blocking")
           => /\ PolledToDone(SEEK_POLL_INTERVAL_MS)
              /\ bus'[1].len = 2
              /\ fm_get_bit(Sent(bus'[1], POWERCFG), SEEK_BIT)]_vars
    /\ [][(last = Idle /\ last'.ctl = "run" /\ last'.op = "fm_set_frequency_blocking"
              /\ last'.arg[1] # radio.frequency)
           => /\ PolledToDone(TUNE_POLL_INTERVAL_MS)
              /\ bus'[1].len = 4
              /\ fm_get_bit(Sent(bus'[1], CHANNEL), TUNE_BIT)]_vars
    /\ [][(last = Idle /\ last'.ctl = "run" /\ last'.op = "fm_set_frequency_blocking"
              /\ last'.arg[1] = radio.frequency)
           => /\ bus' = << >>
              /\ last'.prog = << >>
              /\ last'.elapsed = 0
              /\ radio' = radio
              /\ chip' = chip]_vars

C19_Witness ==
    /\ last.op = "fm_set_frequency_blocking"
    /\ last.ctl = "run"
    /\ Len(last.prog) = 2
    /\ last.elapsed = 2 * TUNE_POLL_INTERVAL_MS * 1000
    /\ radio.frequency = last.arg[1]
    /\ radio.async.task = NoTask
\* C20: a task in the slot stays there, the same task in the same state,
\* through every step of the program (time passing, queries, rejected calls,
\* gated ticks, ticks that report not done) except three: a returned
\* fm_async_task_tick that was entered at or after the resume time and
\* reports done, a returned fm_async_task_cancel, and a returned
\* fm_power_down; each of these leaves the slot empty.
C20_NoTimeout ==
    /\ [][(radio.async.task # NoTask
              /\ <<radio'.async.task, radio'.async.state>>
                    # <<radio.async.task, radio.async.state>>)
           => /\ last = Idle
              /\ last'.ctl = "run"
              /\ radio'.async = [task |-> NoTask, state |-> 0, resume_time |-> 0]
              /\ \/ /\ last'.op = "fm_async_task_tick"
                    /\ radio.async.resume_time = 0
                    /\ last'.progress.done
                 \/ last'.op = "fm_async_task_cancel"
                 \/ last'.op = "fm_power_down"]_vars
    /\ [][(radio.async.task # NoTask /\ last = Idle /\ last'.ctl = "run"
              /\ \/ last'.op = "fm_async_task_tick" /\ last'.progress.done
                 \/ last'.op = "fm_async_task_cancel"
                 \/ last'.op = "fm_power_down")
           => radio'.async.task = NoTask]_vars

C20_Witness ==
    /\ last.op = "fm_get_stereo_indicator"
    /\ last.ctl = "run"
    /\ radio.async.task = TuneTask
    /\ radio.async.resume_time = 0
    /\ chip.stc
    /\ fm_get_bit(radio.regs[STATUSRSSI], STC_BIT)

\* the poll interval of the task in the slot of handle r, in us
PollInterval(r) ==
    (IF r.async.task = TuneTask THEN TUNE_POLL_INTERVAL_MS ELSE SEEK_POLL_INTERVAL_MS) * 1000

\* C21: a returned fm_async_task_tick on a pending task touches the bus only
\* if it was entered at or after the resume time; such a tick empties the
\* slot iff it reports done, and it reports done iff the status word it
\* examines has STC set.  With STC clear it has made one read and nothing
\* else, the same task is in the slot in the same state, and the resume
\* time is one poll interval (20 ms tune, 200 ms seek) after the tick.
C21_EligibleTick ==
    [][(last = Idle /\ last'.op = "fm_async_task_tick" /\ last'.ctl = "run"
            /\ radio.async.task # NoTask)
         => /\ bus' # << >> => radio.async.resume_time = 0
            /\ radio.async.resume_time = 0
                 => LET status == StatusBefore(radio, bus', 2)
                    IN /\ bus'[1].op = "read"
                       /\ bus'[1].len = (IF radio.async.task = TuneTask THEN 2 ELSE 4)
                       /\ last'.progress.done <=> radio'.async.task = NoTask
                       /\ last'.progress.done <=> fm_get_bit(status, STC_BIT)
                       /\ ~last'.progress.done
                            => /\ Len(bus') = 1
                               /\ radio'.async.task = radio.async.task
                               /\ radio'.async.state = 1
                               /\ radio'.async.resume_time = PollInterval(radio)
                               /\ last'.progress = [done |-> FALSE, result |-> 0]]_vars

C21_Witness ==
    /\ last.op = "fm_async_task_tick"
    /\ last.ctl = "run"
    /\ ~last.progress.done
    /\ Len(bus) = 1
    /\ bus[1].ok
    /\ radio.async.task = TuneTask
    /\ radio.async.resume_time = TUNE_POLL_INTERVAL_MS * 1000

\* the log is the stop sequence of a tune from index j on: the write through
\* CHANNEL with TUNE clear, one or more reads of STATUSRSSI alone, and last
\* the read up to READCHAN
TuneStopSequence(log, j) ==
    LET n == Len(log)
    IN /\ n >= j + 2
       /\ log[j].op = "write" /\ log[j].len = 4
       /\ ~fm_get_bit(Sent(log[j], CHANNEL), TUNE_BIT)
       /\ \A i \in (j + 1)..(n - 1) : log[i].op = "read" /\ log[i].len = 2
       /\ log[n].op = "read" /\ log[n].len = 4

\* a tune task completes in this step: a tick that reports done, or a cancel
TuneCompletes ==
    /\ last = Idle
    /\ last'.ctl = "run"
    /\ radio.async.task = TuneTask
    /\ \/ last'.op = "fm_async_task_tick" /\ last'.progress.done
       \/ last'.op = "fm_async_task_cancel"

\* C22 as stated: when a tune task completes, the bus operations are the
\* write that clears TUNE, then status reads that go on until one of them
\* shows STC clear (the last of them is a full read with STC clear), then the
\* READCHAN read.
C22_StopWaitsForStcClear ==
    [][TuneCompletes
         => LET n == Len(bus')
            IN /\ TuneStopSequence(bus', IF last'.op = "fm_async_task_tick" THEN 2 ELSE 1)
               /\ bus'[n - 1].ok
               /\ ~fm_get_bit(Received(bus'[n - 1], STATUSRSSI), STC_BIT)]_vars

\* the frequency of the channel in the READCHAN word w, for handle r
FrequencyOf(r, w) ==
    fm_channel_to_frequency(fm_get_bits(w, READCHAN_BITS, READCHAN_LSB),
                            fm_get_frequency_range(r))

\* C23: a returned seek tick entered at or after the resume time whose read
\* (STATUSRSSI and READCHAN in one burst) came back whole with STC clear
\* reports done=false and has stored the frequency of the READCHAN word of
\* that read, the channel the chip is on, as the cached frequency, which is
\* what fm_get_frequency returns until the next poll; after a short read it
\* stores the frequency of the READCHAN word the shadow held.  A tick
\* entered before the resume time leaves the cached frequency as it was.
C23_SeekTickRefreshesFrequency ==
    [][(last = Idle /\ last'.op = "fm_async_task_tick" /\ last'.ctl = "run"
            /\ radio.async.task = SeekTask)
         => /\ (radio.async.resume_time = 0 /\ bus'[1].ok
                  /\ ~fm_get_bit(Received(bus'[1], STATUSRSSI), STC_BIT))
               => /\ ~last'.progress.done
                  /\ Len(bus') = 1
                  /\ fm_get_frequency(radio') = FrequencyOf(radio, Received(bus'[1], READCHAN))
                  /\ fm_get_frequency(radio')
                        = fm_channel_to_frequency(chip'.chan, fm_get_frequency_range(radio))
                  /\ radio'.regs[READCHAN] = Received(bus'[1], READCHAN)
            /\ (radio.async.resume_time = 0 /\ ~last'.progress.done)
               => fm_get_frequency(radio') = FrequencyOf(radio, radio'.regs[READCHAN])
            /\ (radio.async.resume_time = 0 /\ ~bus'[1].ok /\ ~last'.progress.done)
               => fm_get_frequency(radio') = FrequencyOf(radio, radio.regs[READCHAN])
            /\ radio.async.resume_time > 0
               => /\ fm_get_frequency(radio') = fm_get_frequency(radio)
                  /\ ~last'.progress.done
                  /\ bus' = << >>]_vars

C23_Witness ==
    /\ last.op = "fm_async_task_tick"
    /\ last.ctl = "run"
    /\ ~last.progress.done
    /\ radio.async.task = SeekTask
    /\ Len(bus) = 1
    /\ bus[1].ok
    /\ chip.chan \in SeekChannels
    /\ fm_get_frequency(radio) = FrequencyOf(radio, Received(bus[1], READCHAN))
    /\ fm_get_frequency(radio) > fm_get_frequency_range(radio).bottom

\* position (1-based) of register q in a read burst: 0xA first, 0x9 last
ReadPosition(q) == ((q + 16 - STATUSRSSI) % 16) + 1

\* C24: for every register index r in 0..15, fm_read_registers_up_to makes
\* one read of ((r - 0xA) mod 16) + 1 registers.  After a full transfer it
\* returns true and each shadow register from 0xA to r in the cyclic order
\* holds the big-endian word of its byte pair, the word the chip sent, while
\* every other shadow register is as before; after a short transfer it
\* returns false and all 16 shadow registers are as before.  Nothing else
\* of the handle changes.
C24_ReadThrough ==
    [][(last = Idle /\ last'.op = "fm_read_registers_up_to" /\ last'.arg[1] \in 0..15)
         => LET r == last'.arg[1]
                n == ((r + 16 - 10) % 16) + 1
                rd == bus'[1]
            IN /\ last'.ctl = "run"
               /\ Len(bus') = 1
               /\ rd.op = "read"
               /\ rd.len = 2 * n
               /\ last'.ret = B2N(rd.ok)
               /\ rd.ok
                    => /\ Len(rd.data) = 2 * n
                       /\ \A q \in 0..15 :
                             IF ReadPosition(q) <= n
                             THEN /\ radio'.regs[q]
                                       = rd.data[2 * ReadPosition(q) - 1] * 256
                                           + rd.data[2 * ReadPosition(q)]
                                  /\ radio'.regs[q] = HwWord(chip', q)
                             ELSE radio'.regs[q] = radio.regs[q]
               /\ ~rd.ok => radio'.regs = radio.regs
               /\ radio' = [radio EXCEPT !.regs = radio'.regs]]_vars

C24_Witness ==
    /\ last.op = "fm_read_registers_up_to"
    /\ last.arg = <<CHIPID>>
    /\ last.ret = 1
    /\ bus[1].len = 16
    /\ radio.regs[CHIPID] = chip.chipid
    /\ radio.regs[DEVICEID] = 4674
    /\ radio.regs[SYSCONFIG2] # chip.bank[SYSCONFIG2]

\* C25: for every register index r in 2..15, fm_write_registers_up_to makes
\* one write of 2 * (r - 1) bytes: high byte, then low byte of the shadow
\* registers 0x2, 0x3, ..., r.  It returns true iff the transfer was full,
\* and leaves the handle as it was.  The read path's decoding of the bytes
\* sent gives back the words of the shadow registers 0x2..r, and after a
\* full transfer the chip's writable registers up to r hold them.
C25_WriteThrough ==
    [][(last = Idle /\ last'.op = "fm_write_registers_up_to" /\ last'.arg[1] \in 2..15)
         => LET r == last'.arg[1]
                w == bus'[1]
                decoded == DecodeInto([q \in 0..15 |-> 0], w.data)
            IN /\ last'.ctl = "run"
               /\ Len(bus') = 1
               /\ w.op = "write"
               /\ w.len = 2 * (r - 1)
               /\ Len(w.data) = 2 * (r - 1)
               /\ \A q \in 2..r :
                     /\ w.data[2 * (q - 1) - 1] = radio.regs[q] \div 256
                     /\ w.data[2 * (q - 1)] = radio.regs[q] % 256
                     /\ decoded[ReadOrder(q - 1)] = radio.regs[q]
               /\ last'.ret = B2N(w.ok)
               /\ radio' = radio
               /\ w.ok => \A q \in POWERCFG..BOOTCONFIG :
                             chip'.bank[q] = (IF q <= r THEN radio.regs[q] ELSE chip.bank[q])
               /\ ~w.ok => chip' = chip]_vars

C25_Witness ==
    /\ last.op = "fm_write_registers_up_to"
    /\ last.arg = <<RDSD>>
    /\ last.ret = 1
    /\ bus[1].len = 28
    /\ bus[1].data[21] * 256 + bus[1].data[22] = radio.regs[RDSA]
    /\ radio.regs[RDSA] > 255
    /\ radio.regs[RDSA] % 256 # 0
    /\ radio.regs[RDSA] % 256 # radio.regs[RDSA] \div 256

\* the config handed to the fm_power_up that has just returned is the stored one
SameConfig(r, arg) ==
    <<r.config.band, r.config.channel_spacing, r.config.deemphasis>> = arg

\* fm_power_up was entered with the device not powered up, so that it went
\* on to choose its path
PowerUpAccepted ==
    last = Idle /\ last'.op = "fm_power_up" /\ ~fm_is_powered_up(radio)

\* fast path iff DISABLE is set in the shadow and the config is the stored
\* one; the cold path begins with the pin reset and the full read
C26_PathChoice ==
    [][PowerUpAccepted
         => /\ (fm_get_bit(radio.regs[POWERCFG], DISABLE_BIT) /\ SameConfig(radio, last'.arg))
                 <=> bus'[1].op = "write"
            /\ bus'[1].op # "write"
                 => /\ bus'[1].op = "reset"
                    /\ bus'[2].op = "read" /\ bus'[2].len = 32
                    /\ SameConfig(radio', last'.arg)
            /\ radio = fm_init => bus'[1].op = "reset"]_vars

\* the stored config changes only in a cold-path fm_power_up
C26_ConfigWriter ==
    [][radio'.config # radio.config
         => PowerUpAccepted /\ bus'[1].op = "reset" /\ SameConfig(radio', last'.arg)]_vars

\* ENABLE and DISABLE are never both set in the shadow
C26_NeverBoth ==
    ~(fm_get_bit(radio.regs[POWERCFG], ENABLE_BIT)
        /\ fm_get_bit(radio.regs[POWERCFG], DISABLE_BIT))

\* after every fm_power_up that returns the shadow has ENABLE set, DISABLE clear
C26_EnabledAfterPowerUp ==
    [][(PowerUpAccepted /\ last'.ctl = "run")
         => /\ fm_get_bit(radio'.regs[POWERCFG], ENABLE_BIT)
            /\ ~fm_get_bit(radio'.regs[POWERCFG], DISABLE_BIT)]_vars

\* C26 as stated: fm_power_up takes the fast path iff the shadow DISABLE bit
\* is set and the config is the stored one; the first fm_power_up after
\* fm_init and one with another config take the cold path, the only
\* operation that changes the stored config; after every fm_power_up the
\* shadow has ENABLE set and DISABLE clear, and the two bits are never both
\* set.
C26_PowerUpPaths ==
    /\ C26_PathChoice
    /\ C26_ConfigWriter
    /\ []C26_NeverBoth
    /\ C26_EnabledAfterPowerUp

\* C27: a cold-path fm_power_up that returns, entered with a cached
\* frequency other than 0, has run a whole blocking tune after its six
\* initialization operations: the start write through CHANNEL with TUNE set
\* and the channel of that frequency in the new config, one status read per
\* 20 ms poll, the stop write after the last one; the last tick reports done
\* with result 0, the slot is empty and TUNE is clear in the shadow.  Entered
\* with the cached frequency 0 it does the six initialization operations and
\* nothing else: no task, no tick, no write with TUNE set, frequency still 0.
C27_ColdPathRetune ==
    [][(PowerUpAccepted /\ last'.ctl = "run" /\ bus'[1].op = "reset")
         => /\ Len(bus') >= 6
            /\ \A i \in 1..6 :
                  bus'[i].op = "write" /\ bus'[i].len >= 4
                     => ~fm_get_bit(Sent(bus'[i], CHANNEL), TUNE_BIT)
            /\ radio.frequency = 0
                 => /\ Len(bus') = 6
                    /\ last'.prog = << >>
                    /\ last'.elapsed = 620000
                    /\ radio'.frequency = 0
            /\ radio.frequency # 0
                 => LET n == Len(last'.prog)
                        start == bus'[7]
                    IN /\ n >= 1
                       /\ start.op = "write" /\ start.len = 4
                       /\ fm_get_bit(Sent(start, CHANNEL), TUNE_BIT)
                       /\ fm_get_bits(Sent(start, CHANNEL), CHAN_BITS, CHAN_LSB)
                             = fm_frequency_to_channel(radio.frequency,
                                                       fm_get_frequency_range(radio'))
                       /\ \A i \in 8..(n + 7) : bus'[i].op = "read" /\ bus'[i].len = 2
                       /\ TuneStopSequence(bus', n + 8)
                       /\ \A i \in 1..(n - 1) : ~last'.prog[i].done
                       /\ last'.prog[n] = [done |-> TRUE, result |-> 0]
                       /\ last'.elapsed = 620000 + n * TUNE_POLL_INTERVAL_MS * 1000
                       /\ FrequencyFromFinalRead(radio', bus')
            /\ radio'.async = NoAsync
            /\ ~fm_get_bit(radio'.regs[CHANNEL], TUNE_BIT)]_vars

C27_Witness ==
    /\ last.op = "fm_power_up"
    /\ last.ctl = "run"
    /\ bus[1].op = "reset"
    /\ Len(bus) > 6
    /\ bus[7].op = "write"
    /\ fm_get_bit(Sent(bus[7], CHANNEL), TUNE_BIT)
    /\ Len(last.prog) = 2
    /\ radio.frequency # 0
    /\ radio.async.task = NoTask

\* a call is under way at one of its loops
InCall == last.ctl \in {"poll", "wait", "readchan"}

\* C28: with no short transfer, a chip that in the end sets STC once a start
\* bit was written and clears it once the start bit was cleared, and a
\* program that goes on running, every fm_set_frequency_blocking,
\* fm_seek_blocking, fm_async_task_cancel and eligible fm_async_task_tick
\* that has entered one of its loops returns in the end, with the slot
\* empty; and the wait for STC clear is left by the first status read that
\* shows STC clear and by no other.
C28_CallsReturn ==
    /\ (InCall /\ last.op = "fm_set_frequency_blocking")
          ~> (last.ctl = "run" /\ last.op = "fm_set_frequency_blocking"
                /\ radio.async.task = NoTask)
    /\ (InCall /\ last.op = "fm_seek_blocking")
          ~> (last.ctl = "run" /\ last.op = "fm_seek_blocking"
                /\ radio.async.task = NoTask)
    /\ (InCall /\ last.op = "fm_async_task_cancel")
          ~> (last.ctl = "run" /\ last.op = "fm_async_task_cancel"
                /\ radio.async.task = NoTask)
    /\ (InCall /\ last.op = "fm_async_task_tick")
          ~> (last.ctl = "run" /\ last.op = "fm_async_task_tick"
                /\ radio.async.task = NoTask)
    /\ [][last.ctl = "wait" /\ last' # last
            => /\ Len(bus') = 1
               /\ bus'[1].op = "read" /\ bus'[1].len = 2 /\ bus'[1].ok
               /\ last'.ctl = (IF fm_get_bit(Received(bus'[1], STATUSRSSI), STC_BIT)
                               THEN "wait" ELSE "readchan")]_vars

C28_Witness ==
    /\ last.op = "fm_seek_blocking"
    /\ last.ctl = "run"
    /\ last.progress = [done |-> TRUE, result |-> -1]
    /\ last.ret = 0
    /\ radio.async.task = NoTask
    /\ ~chip.stc

\* the program is at an API boundary: no call has failed an assert or panicked
AtBoundary == last = Idle \/ last.ctl = "run"

\* C29: at every API boundary the slot holds a tune task iff the shadow
\* CHANNEL has TUNE set and a seek task iff the shadow POWERCFG has SEEK
\* set; with the slot empty, and while powered down, both bits are clear.
C29_StartBitsTrackSlot ==
    AtBoundary =>
        /\ radio.async.task = TuneTask <=> fm_get_bit(radio.regs[CHANNEL], TUNE_BIT)
        /\ radio.async.task = SeekTask <=> fm_get_bit(radio.regs[POWERCFG], SEEK_BIT)
        /\ ~fm_is_powered_up(radio) =>
               /\ ~fm_get_bit(radio.regs[CHANNEL], TUNE_BIT)
               /\ ~fm_get_bit(radio.regs[POWERCFG], SEEK_BIT)
        /\ (last # Idle /\ last.op \in SetterOps /\ radio.async.task = NoTask) =>
               \A i \in 1..Len(bus) :
                   bus[i].op = "write" =>
                       /\ ~fm_get_bit(Sent(bus[i], POWERCFG), SEEK_BIT)
                       /\ bus[i].len >= 4 => ~fm_get_bit(Sent(bus[i], CHANNEL), TUNE_BIT)

\* a setter wrote through CHANNEL after a tune or seek had ended
C29_Witness ==
    /\ last # Idle
    /\ last.op \in SetterOps
    /\ last.ctl = "run"
    /\ radio.async.task = NoTask
    /\ radio.frequency # 0
    /\ Len(bus) = 1
    /\ bus[1].op = "write" /\ bus[1].len >= 4 /\ bus[1].ok
    /\ ~fm_get_bit(radio.regs[CHANNEL], TUNE_BIT)
    /\ ~fm_get_bit(radio.regs[POWERCFG], SEEK_BIT)

\* C30: whenever the device is powered up at an API boundary, the shadow
\* fields DMUTE, DSMUTE, MONO, VOLUME, VOLEXT, SMUTER, SMUTEA, the seek
\* thresholds and BAND, SPACE, DE are the ones of the cached settings and of
\* the stored config, and the cached volume is at most 15.
C30_SettingsAgree ==
    (AtBoundary /\ fm_is_powered_up(radio)) =>
        LET regs == radio.regs
        IN /\ fm_get_bit(regs[POWERCFG], DMUTE_BIT) = ~radio.mute
           /\ fm_get_bit(regs[POWERCFG], DSMUTE_BIT) = ~radio.softmute
           /\ fm_get_bit(regs[POWERCFG], MONO_BIT) = radio.mono
           /\ fm_get_bits(regs[SYSCONFIG2], VOLUME_BITS, VOLUME_LSB) = radio.volume
           /\ radio.volume <= 15
           /\ fm_get_bit(regs[SYSCONFIG3], VOLEXT_BIT) = radio.volext
           /\ fm_get_bits(regs[SYSCONFIG3], SMUTER_BITS, SMUTER_LSB) = radio.softmute_rate
           /\ fm_get_bits(regs[SYSCONFIG3], SMUTEA_BITS, SMUTEA_LSB)
                  = radio.softmute_attenuation
           /\ fm_set_seek_sensitivity_bits(regs, radio.seek_sensitivity) = regs
           /\ fm_get_bits(regs[SYSCONFIG2], BAND_BITS, BAND_LSB) = radio.config.band
           /\ fm_get_bits(regs[SYSCONFIG2], SPACE_BITS, SPACE_LSB)
                  = radio.config.channel_spacing
           /\ fm_get_bit(regs[SYSCONFIG1], DE_BIT)
                  = (radio.config.deemphasis = FM_DEEMPHASIS_50)

\* a cold power-up with a short transfer has returned powered up, after a
\* setter had changed a cached setting
C30_Witness ==
    /\ last # Idle
    /\ last.op = "fm_power_up"
    /\ last.ctl = "run"
    /\ fm_is_powered_up(radio)
    /\ bus[1].op = "reset"
    /\ \E i \in 1..Len(bus) : bus[i].op # "reset" /\ ~bus[i].ok
    /\ <<radio.mute, radio.softmute, radio.softmute_rate, radio.softmute_attenuation,
         radio.mono, radio.volume, radio.volext, radio.seek_sensitivity>>
         # <<fm_init.mute, fm_init.softmute, fm_init.softmute_rate,
             fm_init.softmute_attenuation, fm_init.mono, fm_init.volume,
             fm_init.volext, fm_init.seek_sensitivity>>

\* the comparison a setter (or fm_set_frequency_blocking) makes before it
\* returns early: the argument, the volume clamped to FM_MAX_VOLUME, is the
\* value the handle r caches
SameAsCached(r, op, arg) ==
    CASE op = "fm_set_mute" -> B2N(r.mute) = arg[1]
      [] op = "fm_set_softmute" -> B2N(r.softmute) = arg[1]
      [] op = "fm_set_softmute_rate" -> r.softmute_rate = arg[1]
      [] op = "fm_set_softmute_attenuation" -> r.softmute_attenuation = arg[1]
      [] op = "fm_set_mono" -> B2N(r.mono) = arg[1]
      [] op = "fm_set_seek_sensitivity" -> r.seek_sensitivity = arg[1]
      [] op = "fm_set_volume" ->
             /\ r.volume = (IF arg[1] < FM_MAX_VOLUME THEN arg[1] ELSE FM_MAX_VOLUME)
             /\ B2N(r.volext) = arg[2]
      [] op = "fm_set_frequency_blocking" -> r.frequency = arg[1]
      [] OTHER -> FALSE

\* a setter or fm_set_frequency_blocking is called on a powered-up device
\* with the slot empty
IdleSetterCall ==
    /\ last = Idle
    /\ last'.op \in SetterOps \cup {"fm_set_frequency_blocking"}
    /\ fm_is_powered_up(radio)
    /\ radio.async.task = NoTask

\* the write bursts in a log
Writes(log) == Cardinality({i \in 1..Len(log) : log[i].op = "write"})

\* C31 as stated: with the cached value the call makes no bus transaction
\* and leaves the handle as it was; with a different value it makes exactly
\* one write burst, fm_set_frequency_blocking included.
C31_Original ==
    [][IdleSetterCall
         => IF SameAsCached(radio, last'.op, last'.arg)
            THEN bus' = << >> /\ radio' = radio
            ELSE Len(bus') = 1 /\ bus'[1].op = "write"]_vars

\* C31: on a powered-up device with the slot empty, a setter or
\* fm_set_frequency_blocking called with the value already cached (the
\* volume after clamping to 15) returns with no bus transaction and with the
\* handle and the chip as they were.  A setter called with a different value
\* makes exactly one write burst and nothing else on the bus, caches the
\* value and leaves the slot empty; fm_set_frequency_blocking with a
\* different frequency that returns has run a whole tune: two write bursts
\* and at least three reads.
C31_SameValueNoTraffic ==
    [][IdleSetterCall
         => IF SameAsCached(radio, last'.op, last'.arg)
            THEN /\ last'.ctl = "run"
                 /\ bus' = << >>
                 /\ radio' = radio
                 /\ chip' = chip
            ELSE IF last'.op \in SetterOps
            THEN /\ last'.ctl = "run"
                 /\ Len(bus') = 1
                 /\ bus'[1].op = "write"
                 /\ SameAsCached(radio', last'.op, last'.arg)
                 /\ radio'.async = radio.async
            ELSE last'.ctl = "run"
                    => /\ Writes(bus') = 2
                       /\ Len(bus') >= 5
                       /\ bus'[1].op = "write"
                       /\ radio'.async.task = NoTask]_vars

\* fm_set_volume(20, false) came back with nothing on the bus: 20 clamps to
\* the cached 15
C31_Witness ==
    /\ last # Idle
    /\ last.op = "fm_set_volume"
    /\ last.arg = <<20, 0>>
    /\ last.ctl = "run"
    /\ bus = << >>
    /\ radio.volume = 15
    /\ ~radio.volext
    /\ fm_is_powered_up(radio)

\* C32: for every band, channel spacing and frequency from the bottom to the
\* top of the band, fm_set_frequency_async on a powered-up radio with the
\* slot empty writes one burst through CHANNEL whose CHANNEL word has TUNE
\* set, the CHAN field equal to fm_frequency_to_channel of the frequency, a
\* value of at most 640 (so at most 0x3FF), and bits 10..14 as they were in
\* the shadow; the shadow CHANNEL is the word written.
C32_ChannelFitsField ==
    [][(last = Idle /\ last'.op = "fm_set_frequency_async"
          /\ fm_is_powered_up(radio) /\ radio.async.task = NoTask)
         => LET range == fm_get_frequency_range(radio)
                channel == fm_frequency_to_channel(last'.arg[1], range)
                word == Sent(bus'[1], CHANNEL)
            IN /\ last'.ctl = "run"
               /\ Len(bus') = 1
               /\ bus'[1].op = "write" /\ bus'[1].len = 4
               /\ channel <= 640
               /\ channel <= CHAN_BITS
               /\ fm_get_bit(word, TUNE_BIT)
               /\ fm_get_bits(word, CHAN_BITS, CHAN_LSB) = channel
               /\ (word \div 1024) % 32 = (radio.regs[CHANNEL] \div 1024) % 32
               /\ radio'.regs[CHANNEL] = word]_vars

\* the top of the widest band at the narrowest spacing: channel 640
C32_Witness ==
    /\ last # Idle
    /\ last.op = "fm_set_frequency_async"
    /\ last.arg = <<108000>>
    /\ last.ctl = "run"
    /\ radio.config.band = FM_BAND_JAPAN_WIDE
    /\ radio.config.channel_spacing = FM_CHANNEL_SPACING_50
    /\ fm_get_bits(radio.regs[CHANNEL], CHAN_BITS, CHAN_LSB) = 640
    /\ fm_get_bit(radio.regs[CHANNEL], TUNE_BIT)
    /\ radio.async.task = TuneTask

\* a query is called on a powered-up device while a tune or seek is pending
\* (fm_read_rds_group on a chip with RDS)
QueryWhilePending ==
    /\ last = Idle
    /\ last'.op \in QueryOps
    /\ fm_is_powered_up(radio)
    /\ radio.async.task # NoTask
    /\ last'.op = "fm_read_rds_group" => fm_is_rds_supported(radio)

\* what holds of every query while a task is pending: it returns after
\* exactly one read burst (one register, or 0xA..0xF for the RDS group) and
\* leaves the slot (task, state, resume time), the cached frequency and the
\* shadow registers 0x0..0x9 as they were; after a short read the whole
\* handle is as it was
QueryFrame ==
    /\ last'.ctl = "run"
    /\ Len(bus') = 1
    /\ bus'[1].op = "read"
    /\ bus'[1].len = (IF last'.op = "fm_read_rds_group" THEN 12 ELSE 2)
    /\ radio'.async = radio.async
    /\ radio'.frequency = radio.frequency
    /\ \A q \in 0..9 : radio'.regs[q] = radio.regs[q]
    /\ ~bus'[1].ok => radio' = radio

\* C33 as stated: a query called while a tune or seek is pending is
\* accepted, makes exactly one read burst and leaves the slot, the cached
\* frequency and the shadow registers 0x0..0x9 unchanged, and a tick that
\* follows the query at or after the resume time completes the task only if
\* its own status read came back showing STC set.
C33_QueriesLeaveEngine ==
    [][QueryWhilePending
         => /\ QueryFrame
            /\ radio'.async.resume_time = 0
                 => \A m \in fm_async_task_tick(Enter') :
                       (m.ctl = "run" /\ m.progress.done)
                          => /\ m.bus[1].ok
                             /\ fm_get_bit(Received(m.bus[1], STATUSRSSI), STC_BIT)]_vars
=============================================================================
